---- MODULE Spec2Model ----
(***************************************************************************)
(* A model of the federation core of the activity library (package pub):   *)
(* the HTTP-signature transport (src/pub/transport.go) and the activity    *)
(* utilities (src/pub/util.go).                                            *)
(*                                                                         *)
(* The module holds several specifications over one set of variables.      *)
(* The utilities that are pure functions of their arguments are operators; *)
(* their specifications draw the arguments in Init and apply the operator  *)
(* in one action.  The transport and the database utilities are modelled   *)
(* as processes, one step per call that another process can observe.       *)
(***************************************************************************)
EXTENDS Integers, Sequences, FiniteSets, TLC

VARIABLES
    fn,         \* the utility function under test ("" when none)
    input,      \* its arguments
    output,     \* the results of the calls made so far, oldest first
    recipients, \* BatchDeliver: its argument, a list of URLs
    bpc,        \* BatchDeliver: where the call is
    spawned,    \* BatchDeliver: the goroutines started so far
    wg,         \* BatchDeliver: the WaitGroup counter
    errCh,      \* BatchDeliver: the buffered channel of errors
    errs,       \* BatchDeliver: the error strings drained from errCh
    bret,       \* BatchDeliver: what it returned
    tpc,        \* Deliver task i: where it is
    tres,       \* Deliver task i: what h.Deliver returned, once it has
    postSignerMu,   \* the task holding h.postSignerMu, 0 when unlocked
    dpc,        \* Dereference call j: where it is
    dres,       \* Dereference call j: what it returned, once it has
    getSignerMu,    \* the call holding h.getSignerMu, 0 when unlocked
    cancelled,  \* whether the context given to the transport calls is cancelled
    tresp,      \* Deliver task i: the status of the response it got, 0 if none
    dresp,      \* Dereference call j: the status of the response, 0 if none
    db,         \* Database: the value stored under each IRI string
    owns,       \* Database: the IRI strings the Database owns
    locks,      \* Database: the caller holding the lock of each IRI, "" if none
    prog,       \* caller p: the calls it makes, in order, and their arguments
    loc,        \* caller p: where it is in its current call, and its locals
    rets,       \* caller p: what its finished calls returned, oldest first
    trace,      \* caller p: its Database and Transport calls, oldest first
    got         \* caller p: the values t of the objects whose actors it checked

utilVars == <<fn, input, output>>
batchVars == <<recipients, bpc, spawned, wg, errCh, errs, bret>>
taskVars == <<tpc, tres, postSignerMu>>
derefVars == <<dpc, dres, getSignerMu>>
httpVars == <<cancelled, tresp, dresp>>
transportVars == <<recipients, bpc, spawned, wg, errCh, errs, bret,
                   tpc, tres, postSignerMu, dpc, dres, getSignerMu,
                   cancelled, tresp, dresp>>

dbVars == <<db, owns, locks, prog, loc, rets, trace, got>>

vars == <<fn, input, output, recipients, bpc, spawned, wg, errCh, errs, bret,
          tpc, tres, postSignerMu, dpc, dres, getSignerMu,
          cancelled, tresp, dresp,
          db, owns, locks, prog, loc, rets, trace, got>>

\* No transport call is made.
TransportIdle ==
    /\ recipients = <<>> /\ bpc = "idle" /\ spawned = 0 /\ wg = 0
    /\ errCh = <<>> /\ errs = <<>> /\ bret = <<>>
    /\ tpc = <<>> /\ tres = <<>> /\ postSignerMu = 0
    /\ dpc = <<>> /\ dres = <<>> /\ getSignerMu = 0
    /\ cancelled = FALSE /\ tresp = <<>> /\ dresp = <<>>

\* No caller uses the Database.
DbIdle ==
    /\ db = <<>> /\ owns = {} /\ locks = <<>>
    /\ prog = <<>> /\ loc = <<>> /\ rets = <<>> /\ trace = <<>> /\ got = <<>>

\* No utility function is under test.
UtilIdle == fn = "" /\ input = <<>> /\ output = <<>>

(***************************************************************************)
(* Bounds of the model.                                                    *)
(***************************************************************************)
MaxItems == 3       \* longest orderedItems list given to dedupeOrderedItems
MaxURLs == 3        \* longest URL list given to filterURLs
MaxObjects == 2     \* longest 'object' property of an activity
MaxNormObjects == 2 \* most objects of a Create given to normalizeRecipients
MaxDepth == 2       \* deepest nesting of values given to clearSensitiveFields
MaxRecipients == 2  \* longest recipient list given to BatchDeliver
MaxDereferences == 2 \* most concurrent Dereference calls
MaxCalls == 3       \* most Deliver tasks and Dereference calls together
MaxTime == 2        \* the clock values 1..MaxTime
MaxTargets == 2     \* longest 'target' property given to add and remove
MaxIRIs == 3        \* longest recipients list given to dedupeIRIs
MaxIgnored == 2     \* longest ignored list given to dedupeIRIs
MaxActors == 3      \* longest list of actor values given to getInboxes
MaxJsonDepth == 2   \* deepest nesting of the map given to serialize
MaxKeys == 2        \* most keys of a map and elements of an array in it

(***************************************************************************)
(* Values shared by the utilities.                                         *)
(*                                                                         *)
(* A *url.URL is the pair of its Host field and of what String() returns.  *)
(* A nil pointer or unset property is the empty sequence, a set one the    *)
(* sequence of its one value.                                              *)
(***************************************************************************)
URL(h, s) == [host |-> h, str |-> s]

A1 == URL("a.example", "https://a.example/1")
A2 == URL("a.example", "https://a.example/2")
B1 == URL("b.example", "https://b.example/1")
NoURL == URL("", "")

Opt(S) == {<<>>} \cup {<<x>> : x \in S}

\* vocab.Type as GetId sees it: the 'id' property, whether the type has an
\* 'href' property (a Link or derived from Link), and that property.
Value(id, hrefer, href) == [id |-> id, hrefer |-> hrefer, href |-> href]
NoValue == Value(<<>>, FALSE, <<>>)

\* One element of a property (IdProperty): an embedded value, an IRI, or
\* a value of another kind (GetType() = nil and IsIRI() = false).
TypeEntry(v) == [kind |-> "type", v |-> v, iri |-> NoURL]
IRIEntry(u) == [kind |-> "iri", v |-> NoValue, iri |-> u]
OtherEntry == [kind |-> "other", v |-> NoValue, iri |-> NoURL]

\* The result of a call returning (*url.URL, error).
Ok(u) == [ok |-> TRUE, url |-> u]
Err == [ok |-> FALSE, url |-> NoURL]

GetId(t) ==
    IF t.id # <<>> THEN Ok(t.id[1])
    ELSE IF t.hrefer /\ t.href # <<>> THEN Ok(t.href[1])
    ELSE Err

ToId(i) ==
    IF i.kind = "type" THEN GetId(i.v)
    ELSE IF i.kind = "iri" THEN Ok(i.iri)
    ELSE Err

\* property.Remove(idx), with the model's indices from 1.
Remove(s, i) == SubSeq(s, 1, i - 1) \o SubSeq(s, i + 1, Len(s))

SeqsUpTo(S, n) == UNION {[1..k -> S] : k \in 0..n}

(***************************************************************************)
(* filterURLs and IsPublic.                                                *)
(***************************************************************************)
PublicActivityPubIRI == "https://www.w3.org/ns/activitystreams#Public"
publicJsonLD == "Public"
publicJsonLDAS == "as:Public"

IsPublic(s) == s = PublicActivityPubIRI \/ s = publicJsonLD \/ s = publicJsonLDAS

\* A transcription that advances past the element that slid into place i.
filterURLsSkipping(u) ==
    LET RECURSIVE loop(_, _)
        loop(s, i) ==
            IF i > Len(s) THEN s
            ELSE IF IsPublic(s[i].str) THEN loop(Remove(s, i), i + 1)
            ELSE loop(s, i + 1)
    IN  loop(u, 1)

\* filterURLs(u, IsPublic): the one filter the claims are about.
filterURLs(u) ==
    LET RECURSIVE loop(_, _)
        loop(s, i) ==
            IF i > Len(s) THEN s
            ELSE IF IsPublic(s[i].str) THEN loop(Remove(s, i), i)
            ELSE loop(s, i + 1)
    IN  loop(u, 1)

FilterURLSet ==
    { URL("www.w3.org", PublicActivityPubIRI), URL("", publicJsonLD),
      URL("", publicJsonLDAS), A1, B1 }

FilterInputs == SeqsUpTo(FilterURLSet, MaxURLs)

InitFilter ==
    /\ TransportIdle
    /\ DbIdle
    /\ fn = "filterURLs"
    /\ input \in FilterInputs
    /\ output = <<>>

CallFilter ==
    /\ fn = "filterURLs"
    /\ output = <<>>
    /\ output' = <<filterURLs(input)>>
    /\ UNCHANGED <<fn, input>>
    /\ UNCHANGED <<transportVars, dbVars>>

SpecFilter == InitFilter /\ [][CallFilter]_vars

(***************************************************************************)
(* dedupeOrderedItems.                                                     *)
(***************************************************************************)
\* The loop of dedupeOrderedItems over 'orderedItems' oi, at index i with the
\* ids seen so far.  The list is changed in place, so an error return leaves
\* it as it is at that moment.
RECURSIVE dedupeLoop(_, _, _)
dedupeLoop(oi, i, seen) ==
    IF i > Len(oi) THEN [err |-> FALSE, oi |-> oi]
    ELSE LET iter == oi[i]
             id == IF iter.kind = "type" THEN GetId(iter.v)
                   ELSE IF iter.kind = "iri" THEN Ok(iter.iri)
                   ELSE Err
         IN  IF ~id.ok THEN [err |-> TRUE, oi |-> oi]
             ELSE IF id.url.str \in seen THEN dedupeLoop(Remove(oi, i), i, seen)
             ELSE dedupeLoop(oi, i + 1, seen \cup {id.url.str})

\* A transcription of the loop that advances past the element that slid into
\* place i after a removal.
RECURSIVE dedupeLoopSkipping(_, _, _)
dedupeLoopSkipping(oi, i, seen) ==
    IF i > Len(oi) THEN [err |-> FALSE, oi |-> oi]
    ELSE LET id == ToId(oi[i])
         IN  IF ~id.ok THEN [err |-> TRUE, oi |-> oi]
             ELSE IF id.url.str \in seen
                  THEN dedupeLoopSkipping(Remove(oi, i), i + 1, seen)
             ELSE dedupeLoopSkipping(oi, i + 1, seen \cup {id.url.str})

dedupeOrderedItemsSkipping(oc) ==
    IF oc = <<>> THEN [err |-> FALSE, oi |-> <<>>]
    ELSE dedupeLoopSkipping(oc[1], 1, {})

\* oc is the 'orderedItems' property of the collection: <<>> when it is nil.
dedupeOrderedItems(oc) ==
    IF oc = <<>> THEN [err |-> FALSE, oi |-> <<>>]
    ELSE dedupeLoop(oc[1], 1, {})

DedupeEntries ==
    { TypeEntry(Value(<<A1>>, FALSE, <<>>)), TypeEntry(Value(<<A2>>, TRUE, <<A1>>)),
      TypeEntry(Value(<<>>, TRUE, <<A1>>)), TypeEntry(Value(<<>>, FALSE, <<>>)),
      IRIEntry(A1), IRIEntry(A2), OtherEntry }

DedupeInputs == Opt(SeqsUpTo(DedupeEntries, MaxItems))

InitDedupe ==
    /\ TransportIdle
    /\ DbIdle
    /\ fn = "dedupeOrderedItems"
    /\ input \in DedupeInputs
    /\ output = <<>>

CallDedupe ==
    /\ fn = "dedupeOrderedItems"
    /\ output = <<>>
    /\ output' = <<dedupeOrderedItems(input)>>
    /\ UNCHANGED <<fn, input>>
    /\ UNCHANGED <<transportVars, dbVars>>

SpecDedupe == InitDedupe /\ [][CallDedupe]_vars

(***************************************************************************)
(* mustHaveActivityOriginMatchObjects.                                     *)
(*                                                                         *)
(* An activity is its own value (id, href) and its 'object' property:      *)
(* <<>> when the property is nil, else the sequence of its elements.       *)
(***************************************************************************)
Activity(v, op) == [v |-> v, op |-> op]

\* The loop over the 'object' property: TRUE when it returns an error.
RECURSIVE originLoop(_, _, _)
originLoop(op, k, originHost) ==
    IF k > Len(op) THEN FALSE
    ELSE LET iri == ToId(op[k])
         IN  IF ~iri.ok THEN TRUE
             ELSE IF originHost # iri.url.host THEN TRUE
             ELSE originLoop(op, k + 1, originHost)

\* A transcription that compares the host of the first object only.
mustHaveActivityOriginMatchObjectsFirstOnly(a) ==
    LET originIRI == GetId(a.v)
    IN  IF ~originIRI.ok THEN [err |-> TRUE, a |-> a]
        ELSE IF a.op = <<>> \/ Len(a.op[1]) = 0 THEN [err |-> FALSE, a |-> a]
        ELSE [err |-> originLoop(SubSeq(a.op[1], 1, 1), 1, originIRI.url.host),
              a |-> a]

\* The result is the error (TRUE when one is returned) and the activity as
\* the call leaves it: the function calls no setter.
mustHaveActivityOriginMatchObjects(a) ==
    LET originIRI == GetId(a.v)
    IN  IF ~originIRI.ok THEN [err |-> TRUE, a |-> a]
        ELSE IF a.op = <<>> \/ Len(a.op[1]) = 0 THEN [err |-> FALSE, a |-> a]
        ELSE [err |-> originLoop(a.op[1], 1, originIRI.url.host), a |-> a]

OriginActivityValues ==
    { Value(<<A1>>, FALSE, <<>>), Value(<<B1>>, FALSE, <<>>), Value(<<>>, FALSE, <<>>) }

OriginEntries ==
    { TypeEntry(Value(<<A1>>, FALSE, <<>>)), TypeEntry(Value(<<B1>>, FALSE, <<>>)),
      TypeEntry(Value(<<>>, TRUE, <<A2>>)), TypeEntry(Value(<<>>, FALSE, <<>>)),
      IRIEntry(A2), IRIEntry(B1), OtherEntry }

OriginInputs ==
    { Activity(v, op) : v \in OriginActivityValues,
                        op \in Opt(SeqsUpTo(OriginEntries, MaxObjects)) }

InitOrigin ==
    /\ TransportIdle
    /\ DbIdle
    /\ fn = "mustHaveActivityOriginMatchObjects"
    /\ input \in OriginInputs
    /\ output = <<>>

CallOrigin ==
    /\ fn = "mustHaveActivityOriginMatchObjects"
    /\ output = <<>>
    /\ output' = <<mustHaveActivityOriginMatchObjects(input)>>
    /\ UNCHANGED <<fn, input>>
    /\ UNCHANGED <<transportVars, dbVars>>

SpecOrigin == InitOrigin /\ [][CallOrigin]_vars

(***************************************************************************)
(* toTombstone.                                                            *)
(*                                                                         *)
(* A value is what toTombstone reads and writes of it: its type name, its  *)
(* 'id', 'formerType', 'published', 'updated' and 'deleted' properties,    *)
(* and whether its type has 'published' and 'updated' at all.              *)
(***************************************************************************)
Object(name, id, former, pubber, pub, upder, upd, del) ==
    [typeName |-> name, id |-> id, formerType |-> former,
     publisheder |-> pubber, published |-> pub,
     updateder |-> upder, updated |-> upd, deleted |-> del]

\* A transcription that sets 'updated' to the time of the deletion.
toTombstoneStampingUpdated(obj, id, now) ==
    Object("Tombstone", <<id>>, <<obj.typeName>>,
           TRUE, IF obj.publisheder /\ obj.published # <<>> THEN obj.published ELSE <<>>,
           TRUE, <<now>>,
           <<now>>)

toTombstone(obj, id, now) ==
    Object("Tombstone", <<id>>, <<obj.typeName>>,
           TRUE, IF obj.publisheder /\ obj.published # <<>> THEN obj.published ELSE <<>>,
           TRUE, IF obj.updateder /\ obj.updated # <<>> THEN obj.updated ELSE <<>>,
           <<now>>)

Times == 1..MaxTime

TombstoneObjects ==
    { Object("Note", <<A1>>, <<>>, TRUE, pub, TRUE, upd, <<>>) :
          pub \in Opt(Times), upd \in Opt(Times) }
    \cup { Object("Mention", id, <<>>, FALSE, <<>>, FALSE, <<>>, <<>>) :
          id \in Opt({A1}) }
    \cup { Object("Tombstone", <<A1>>, <<"Note">>, TRUE, pub, TRUE, <<>>, <<1>>) :
          pub \in Opt(Times) }

TombstoneInputs ==
    [obj : TombstoneObjects, id : {A1, B1}, t1 : Times, t2 : Times]

InitTombstone ==
    /\ TransportIdle
    /\ DbIdle
    /\ fn = "toTombstone"
    /\ input \in TombstoneInputs
    /\ output = <<>>

\* Delete replaces the stored value by its Tombstone: the first call is on the
\* object, a second one on the Tombstone the first call stored.
CallTombstone ==
    /\ fn = "toTombstone"
    /\ \/ /\ output = <<>>
          /\ output' = <<toTombstone(input.obj, input.id, input.t1)>>
       \/ /\ Len(output) = 1
          /\ output' = Append(output, toTombstone(output[1], input.id, input.t2))
    /\ UNCHANGED <<fn, input>>
    /\ UNCHANGED <<transportVars, dbVars>>

SpecTombstone == InitTombstone /\ [][CallTombstone]_vars

(***************************************************************************)
(* normalizeRecipients.                                                    *)
(*                                                                         *)
(* A Create is its five addressing properties (addr) and the elements of   *)
(* its 'object' property.  An addressing property is <<>> when nil, else   *)
(* <<list>>.  An embedded object is what the function reads of it: which   *)
(* of the five properties its type has at all (has) and their values.      *)
(* The function changes the Create and its objects in place, so the model  *)
(* returns them as they are when the function returns, with or without an  *)
(* error.                                                                  *)
(***************************************************************************)
Dims == <<"to", "bto", "cc", "bcc", "audience">>
DimSet == {Dims[k] : k \in 1..Len(Dims)}

Addressed(has, addr) == [has |-> has, addr |-> addr]
NoAddressed == Addressed([d \in DimSet |-> FALSE], [d \in DimSet |-> <<>>])
ObjType(v) == [kind |-> "type", v |-> v]
ObjIRI == [kind |-> "iri", v |-> NoAddressed]

\* The map from id string to IRI that the function builds from a list whose
\* elements all have an id: its set of IRIs.
IdMap(list) == {ToId(list[k]).url : k \in 1..Len(list)}
HasBadId(list) == \E k \in 1..Len(list) : ~ToId(list[k]).ok

\* "for k, v := range m { if _, ok := have[k]; !ok { list.AppendIRI(v) } }":
\* Go ranges over a map in an unspecified order, here the order of ord.
RECURSIVE AppendMissing(_, _, _)
AppendMissing(list, missing, ord) ==
    IF ord = <<>> THEN list
    ELSE AppendMissing(IF Head(ord) \in missing
                       THEN Append(list, IRIEntry(Head(ord))) ELSE list,
                       missing, Tail(ord))

\* Phase 0, from dimension number d on: a nil property of the activity is set
\* to a new empty one, and an element without id is an error.
RECURSIVE activityPhase0(_, _)
activityPhase0(a, d) ==
    IF d > Len(Dims) THEN [err |-> FALSE, a |-> a]
    ELSE LET name == Dims[d]
             a1 == IF a.addr[name] = <<>> THEN [a EXCEPT !.addr[name] = << <<>> >>]
                   ELSE a
         IN  IF HasBadId(a1.addr[name][1]) THEN [err |-> TRUE, a |-> a1]
             ELSE activityPhase0(a1, d + 1)

\* Phase 1 for one object, from dimension number d on.
RECURSIVE objectPhase1(_, _)
objectPhase1(o, d) ==
    IF d > Len(Dims) THEN [err |-> FALSE, o |-> o]
    ELSE LET name == Dims[d]
         IN  IF ~o.has[name] THEN [err |-> TRUE, o |-> o]
             ELSE LET o1 == IF o.addr[name] = <<>>
                            THEN [o EXCEPT !.addr[name] = << <<>> >>] ELSE o
                  IN  IF HasBadId(o1.addr[name][1]) THEN [err |-> TRUE, o |-> o1]
                      ELSE objectPhase1(o1, d + 1)

\* Phase 2 for one object: the activity's recipients it lacks are appended.
objectPhase2(o, actorMaps, ord) ==
    [o EXCEPT !.addr =
        [d \in DimSet |->
            << AppendMissing(o.addr[d][1], actorMaps[d] \ IdMap(o.addr[d][1]), ord) >>]]

\* A loop over the objects that hands the recipients of each object on to the
\* objects after it.
RECURSIVE objectsLoopMerging(_, _, _, _, _)
objectsLoopMerging(a, i, actorMaps, objs, ord) ==
    IF i > Len(a.object) THEN [err |-> FALSE, a |-> a, objs |-> objs]
    ELSE IF a.object[i].kind # "type" THEN [err |-> TRUE, a |-> a, objs |-> objs]
    ELSE LET p1 == objectPhase1(a.object[i].v, 1)
         IN  IF p1.err
             THEN [err |-> TRUE, a |-> [a EXCEPT !.object[i].v = p1.o], objs |-> objs]
             ELSE objectsLoopMerging(
                     [a EXCEPT !.object[i].v = objectPhase2(p1.o, actorMaps, ord)],
                     i + 1,
                     [d \in DimSet |-> actorMaps[d] \cup IdMap(p1.o.addr[d][1])],
                     Append(objs, [d \in DimSet |-> IdMap(p1.o.addr[d][1])]), ord)

\* The loop over the objects, at object i; objs holds the maps of the objects
\* before i, as they were before phase 2.
RECURSIVE objectsLoop(_, _, _, _, _)
objectsLoop(a, i, actorMaps, objs, ord) ==
    IF i > Len(a.object) THEN [err |-> FALSE, a |-> a, objs |-> objs]
    ELSE IF a.object[i].kind # "type" THEN [err |-> TRUE, a |-> a, objs |-> objs]
    ELSE LET p1 == objectPhase1(a.object[i].v, 1)
         IN  IF p1.err
             THEN [err |-> TRUE, a |-> [a EXCEPT !.object[i].v = p1.o], objs |-> objs]
             ELSE objectsLoop(
                     [a EXCEPT !.object[i].v = objectPhase2(p1.o, actorMaps, ord)],
                     i + 1, actorMaps,
                     Append(objs, [d \in DimSet |-> IdMap(p1.o.addr[d][1])]), ord)

\* Phase 3 for one list of the activity, at object i.
RECURSIVE activityPhase3(_, _, _, _, _)
activityPhase3(list, objMaps, i, actorMap, ord) ==
    IF i > Len(objMaps) THEN list
    ELSE activityPhase3(AppendMissing(list, objMaps[i] \ actorMap, ord),
                        objMaps, i + 1, actorMap, ord)

\* A transcription without phase 3.
normalizeRecipientsNoPhase3(a, ord) ==
    LET p0 == activityPhase0(a, 1)
    IN  IF p0.err THEN p0
        ELSE LET actorMaps == [d \in DimSet |-> IdMap(p0.a.addr[d][1])]
                 p12 == objectsLoop(p0.a, 1, actorMaps, <<>>, ord)
             IN  [err |-> p12.err, a |-> p12.a]

normalizeRecipients(a, ord) ==
    LET p0 == activityPhase0(a, 1)
    IN  IF p0.err THEN p0
        ELSE LET actorMaps == [d \in DimSet |-> IdMap(p0.a.addr[d][1])]
                 p12 == objectsLoop(p0.a, 1, actorMaps, <<>>, ord)
             IN  IF p12.err THEN [err |-> TRUE, a |-> p12.a]
                 ELSE [err |-> FALSE,
                       a |-> [p12.a EXCEPT !.addr =
                                [d \in DimSet |->
                                    << activityPhase3(p12.a.addr[d][1],
                                                      [i \in 1..Len(p12.objs) |-> p12.objs[i][d]],
                                                      1, actorMaps[d], ord) >>]]]

\* The inputs: one dimension (focus) takes every combination of the lists
\* below on the activity and on each object, the other four take one of two
\* fillings, so that a recipient crossing from one dimension to another shows.
NormURLs == {A1, B1, A2}
NormOrders ==
    {ord \in [1..Cardinality(NormURLs) -> NormURLs] :
        \A j, k \in 1..Cardinality(NormURLs) : j # k => ord[j] # ord[k]}

NormProps ==
    { <<>>, << <<>> >>, << <<IRIEntry(A1)>> >>, << <<IRIEntry(B1)>> >>,
      << <<TypeEntry(Value(<<A1>>, FALSE, <<>>))>> >>,
      << <<IRIEntry(A1), IRIEntry(B1)>> >>, << <<OtherEntry>> >> }

NormObjectChoices ==
    [k : {"full"}, p : NormProps] \cup {[k |-> "lacking", p |-> <<>>], [k |-> "iri", p |-> <<>>]}

NormObject(focus, fill, c) ==
    IF c.k = "iri" THEN ObjIRI
    ELSE ObjType(Addressed(
            [d \in DimSet |-> ~(c.k = "lacking" /\ d = focus)],
            [d \in DimSet |-> IF d = focus THEN c.p
                              ELSE IF fill = "nil" THEN <<>> ELSE << <<>> >>]))

NormCreate(focus, fill, ap, cs) ==
    [addr |-> [d \in DimSet |-> IF d = focus THEN ap
                                ELSE IF fill = "nil" THEN <<>>
                                ELSE << <<IRIEntry(A2)>> >>],
     object |-> [i \in 1..Len(cs) |-> NormObject(focus, fill, cs[i])]]

NormInputs ==
    { NormCreate(focus, fill, ap, cs) :
        focus \in DimSet, fill \in {"nil", "activity"}, ap \in NormProps,
        cs \in SeqsUpTo(NormObjectChoices, MaxNormObjects) }

InitNormalize ==
    /\ TransportIdle
    /\ DbIdle
    /\ fn = "normalizeRecipients"
    /\ input \in NormInputs
    /\ output = <<>>

CallNormalize ==
    /\ fn = "normalizeRecipients"
    /\ output = <<>>
    /\ \E ord \in NormOrders : output' = <<normalizeRecipients(input, ord)>>
    /\ UNCHANGED <<fn, input>>
    /\ UNCHANGED <<transportVars, dbVars>>

SpecNormalize == InitNormalize /\ [][CallNormalize]_vars

(***************************************************************************)
(* wrapInCreate.                                                           *)
(*                                                                         *)
(* The object is what the function reads of it: for each of the five       *)
(* recipient properties whether its type has it and the property, and the  *)
(* same for 'published'.  A getter returns nil for a property that is not  *)
(* set, and a method called on that nil value panics.                      *)
(***************************************************************************)
Wrapped(has, addr, publisheder, published) ==
    [has |-> has, addr |-> addr, publisheder |-> publisheder, published |-> published]

\* The Create c under construction.
Create(object, actor, published, addr) ==
    [object |-> object, actor |-> actor, published |-> published, addr |-> addr]

\* What a call gives: a panic, or the named results c and err.
WrapResult(panic, err, c) == [panic |-> panic, err |-> err, c |-> c]

\* The list of AppendIRI(id) for the ids of a list whose elements all have one.
idIRIs(list) == [k \in 1..Len(list) |-> IRIEntry(ToId(list[k]).url)]

\* The copy of the recipient properties, from dimension number d on: a
\* property of a type that lacks it is skipped, Begin() on a nil property
\* panics, an element without id is an error that is returned with c as it
\* is by then.
RECURSIVE copyRecipients(_, _, _)
copyRecipients(o, c, d) ==
    IF d > Len(Dims) THEN WrapResult(FALSE, FALSE, c)
    ELSE LET name == Dims[d]
         IN  IF ~o.has[name] THEN copyRecipients(o, c, d + 1)
             ELSE IF o.addr[name] = <<>> THEN WrapResult(TRUE, FALSE, c)
             ELSE IF HasBadId(o.addr[name][1]) THEN WrapResult(FALSE, TRUE, c)
             ELSE copyRecipients(
                     o, [c EXCEPT !.addr[name] = << idIRIs(o.addr[name][1]) >>], d + 1)

wrapInCreate(o, actor) ==
    copyRecipients(
        o,
        Create(<<TypeEntry(o)>>, <<IRIEntry(actor)>>,
               IF o.publisheder THEN o.published ELSE <<>>,
               [d \in DimSet |-> <<>>]),
        1)

\* The objects: 'to' and 'bto' take every choice below, the other three
\* properties take one of four fillings together.
WrapProps ==
    { <<>>, << <<>> >>, << <<IRIEntry(A1)>> >>, << <<IRIEntry(B1), IRIEntry(A1)>> >>,
      << <<TypeEntry(Value(<<A1>>, FALSE, <<>>)), IRIEntry(A1)>> >>, << <<OtherEntry>> >> }

WrapChoices == [has : {TRUE}, p : WrapProps] \cup {[has |-> FALSE, p |-> <<>>]}

WrapObjects ==
    { Wrapped([d \in DimSet |-> IF d = "to" THEN to.has ELSE IF d = "bto" THEN bto.has
                                ELSE rest.has],
              [d \in DimSet |-> IF d = "to" THEN to.p ELSE IF d = "bto" THEN bto.p
                                ELSE rest.p],
              pub.has, pub.p) :
        to \in WrapChoices, bto \in WrapChoices,
        rest \in {c \in WrapChoices : c.p \in {<<>>, << <<>> >>, << <<IRIEntry(A2)>> >>}},
        pub \in {[has |-> FALSE, p |-> <<>>]} \cup [has : {TRUE}, p : Opt(Times)] }

InitWrap ==
    /\ TransportIdle
    /\ DbIdle
    /\ fn = "wrapInCreate"
    /\ input \in [o : WrapObjects, actor : {A1, B1}]
    /\ output = <<>>

CallWrap ==
    /\ fn = "wrapInCreate"
    /\ output = <<>>
    /\ output' = <<wrapInCreate(input.o, input.actor)>>
    /\ UNCHANGED <<fn, input>>
    /\ UNCHANGED <<transportVars, dbVars>>

SpecWrap == InitWrap /\ [][CallWrap]_vars

(***************************************************************************)
(* dedupeIRIs, getInboxes and getInbox.                                    *)
(***************************************************************************)
\* The loop of dedupeIRIs over recipients from index i on, with the list out
\* and the strings of outMap so far, were outMap never written.
RECURSIVE dedupeIRIsLoopForgetting(_, _, _, _, _)
dedupeIRIsLoopForgetting(rcpts, i, ignoredMap, out, outMap) ==
    IF i > Len(rcpts) THEN out
    ELSE IF rcpts[i].str \notin ignoredMap /\ rcpts[i].str \notin outMap
    THEN dedupeIRIsLoopForgetting(rcpts, i + 1, ignoredMap,
                                  Append(out, rcpts[i]), outMap)
    ELSE dedupeIRIsLoopForgetting(rcpts, i + 1, ignoredMap, out, outMap)

\* The loop of dedupeIRIs over recipients from index i on, with the list out
\* and the strings of outMap so far.
RECURSIVE dedupeIRIsLoop(_, _, _, _, _)
dedupeIRIsLoop(rcpts, i, ignoredMap, out, outMap) ==
    IF i > Len(rcpts) THEN out
    ELSE IF rcpts[i].str \notin ignoredMap /\ rcpts[i].str \notin outMap
    THEN dedupeIRIsLoop(rcpts, i + 1, ignoredMap,
                        Append(out, rcpts[i]), outMap \cup {rcpts[i].str})
    ELSE dedupeIRIsLoop(rcpts, i + 1, ignoredMap, out, outMap)

dedupeIRIs(rcpts, ignored) ==
    dedupeIRIsLoop(rcpts, 1, {ignored[k].str : k \in 1..Len(ignored)}, <<>>, {})

IRISet == {A1, A2, B1}

InitDedupeIRIs ==
    /\ TransportIdle
    /\ DbIdle
    /\ fn = "dedupeIRIs"
    /\ input \in [recipients : SeqsUpTo(IRISet, MaxIRIs),
                  ignored : SeqsUpTo(IRISet, MaxIgnored)]
    /\ output = <<>>

\* The first call is on the recipients, a second one on its result with the
\* same ignored list.
CallDedupeIRIs ==
    /\ fn = "dedupeIRIs"
    /\ \/ /\ output = <<>>
          /\ output' = <<dedupeIRIs(input.recipients, input.ignored)>>
       \/ /\ Len(output) = 1
          /\ output' = Append(output, dedupeIRIs(output[1], input.ignored))
    /\ UNCHANGED <<fn, input>>
    /\ UNCHANGED <<transportVars, dbVars>>

SpecDedupeIRIs == InitDedupeIRIs /\ [][CallDedupeIRIs]_vars

\* An actor value as getInbox sees it: whether its type has an 'inbox'
\* property (inboxer), and the property: <<>> when it is not set, else the
\* one element it holds.
Actor(inboxer, inbox) == [inboxer |-> inboxer, inbox |-> inbox]

\* What getInbox and getInboxes give: a panic, or the results u and err; u
\* is a list, of one IRI at most for getInbox.
InboxResult(panic, err, u) == [panic |-> panic, err |-> err, u |-> u]

\* ToId on an 'inbox' property that is not set calls a method on nil.
getInbox(t) ==
    IF ~t.inboxer THEN InboxResult(FALSE, TRUE, <<>>)
    ELSE IF t.inbox = <<>> THEN InboxResult(TRUE, FALSE, <<>>)
    ELSE IF ~ToId(t.inbox[1]).ok THEN InboxResult(FALSE, TRUE, <<>>)
    ELSE InboxResult(FALSE, FALSE, <<ToId(t.inbox[1]).url>>)

\* The loop of getInboxes over t from index i on, with u so far: the first
\* error is returned at once, with u as it is by then.
RECURSIVE getInboxesLoop(_, _, _)
getInboxesLoop(t, i, u) ==
    IF i > Len(t) THEN InboxResult(FALSE, FALSE, u)
    ELSE LET r == getInbox(t[i])
         IN  IF r.panic THEN InboxResult(TRUE, FALSE, u)
             ELSE IF r.err THEN InboxResult(FALSE, TRUE, u)
             ELSE getInboxesLoop(t, i + 1, u \o r.u)

getInboxes(t) == getInboxesLoop(t, 1, <<>>)

ActorValues ==
    {Actor(FALSE, <<>>), Actor(TRUE, <<>>), Actor(TRUE, <<IRIEntry(A1)>>),
     Actor(TRUE, <<IRIEntry(B1)>>), Actor(TRUE, <<OtherEntry>>)}

InitInboxes ==
    /\ TransportIdle
    /\ DbIdle
    /\ fn = "getInboxes"
    /\ input \in SeqsUpTo(ActorValues, MaxActors)
    /\ output = <<>>

CallInboxes ==
    /\ fn = "getInboxes"
    /\ output = <<>>
    /\ output' = <<getInboxes(input)>>
    /\ UNCHANGED <<fn, input>>
    /\ UNCHANGED <<transportVars, dbVars>>

SpecInboxes == InitInboxes /\ [][CallInboxes]_vars

(***************************************************************************)
(* serialize.                                                              *)
(*                                                                         *)
(* A JSON value as serialize sees it: a map[string]interface{} is its      *)
(* '@context' entry (<<>> when the key is absent) and the values of its    *)
(* other keys; a []interface{} is its elements; any other value is a       *)
(* string.  The value a is what a.Serialize() and a.JSONLDContext()        *)
(* return: the map (<<>> when Serialize fails) and the vocabulary-to-alias *)
(* bindings in the order the range statement visits them.                  *)
(***************************************************************************)
jsonLDContext == "@context"

JsonString(s) == [kind |-> "string", s |-> s]
JsonMap(ctx, kids) == [kind |-> "map", ctx |-> ctx, kids |-> kids]
JsonArray(elems) == [kind |-> "array", elems |-> elems]
JsonAliases(pairs) == [kind |-> "aliases", pairs |-> pairs]

Binding(vocab, alias) == [vocab |-> vocab, alias |-> alias]

\* The loop over the bindings v from index i: the vocabularies without alias
\* so far (arr) and the aliased ones (aliases).
RECURSIVE contextLoop(_, _, _, _)
contextLoop(v, i, arr, aliases) ==
    IF i > Len(v) THEN JsonArray(Append(arr, JsonAliases(aliases)))
    ELSE IF Len(v[i].alias) = 0
    THEN contextLoop(v, i + 1, Append(arr, JsonString(v[i].vocab)), aliases)
    ELSE contextLoop(v, i + 1, arr, aliases \cup {<<v[i].alias, v[i].vocab>>})

contextValue(v) ==
    IF Len(v) = 1
    THEN IF Len(v[1].alias) = 0
         THEN JsonString(v[1].vocab)
         ELSE JsonAliases({<<v[1].alias, v[1].vocab>>})
    ELSE contextLoop(v, 1, <<>>, {})

\* cleanFnRecur on the map r: of every value of r that is itself a map the
\* '@context' key is deleted and the map is cleaned in turn; a value of any
\* other type is left as it is.
RECURSIVE cleanFnRecur(_)
cleanFnRecur(r) ==
    [r EXCEPT !.kids =
        [k \in DOMAIN r.kids |->
            IF r.kids[k].kind = "map"
            THEN cleanFnRecur([r.kids[k] EXCEPT !.ctx = <<>>])
            ELSE r.kids[k]]]

SerializeResult(m, e) == [m |-> m, e |-> e]

serialize(a) ==
    IF a.m = <<>> THEN SerializeResult(<<>>, "Serialize")
    ELSE SerializeResult(
             <<cleanFnRecur([a.m[1] EXCEPT !.ctx = <<contextValue(a.v)>>])>>, "")

\* The JSON values of nesting depth d or less.
RECURSIVE JsonValues(_)
JsonValues(d) ==
    IF d = 0
    THEN {JsonString("s"), JsonMap(<<>>, <<>>), JsonMap(<<JsonString("c")>>, <<>>)}
    ELSE {JsonString("s")}
         \cup {JsonMap(c, ks) : c \in Opt({JsonString("c")}),
                                ks \in SeqsUpTo(JsonValues(d - 1), MaxKeys)}
         \cup {JsonArray(es) : es \in SeqsUpTo(JsonValues(d - 1), MaxKeys)}

SerializeBindings ==
    LET as == Binding("https://www.w3.org/ns/activitystreams", "")
        sec == Binding("https://w3id.org/security/v1", "sec")
    IN  {<<>>, <<as>>, <<sec>>, <<as, sec>>, <<sec, as>>}

SerializeInputs ==
    [m : Opt({j \in JsonValues(MaxJsonDepth) : j.kind = "map"}),
     v : SerializeBindings]

InitSerialize ==
    /\ TransportIdle
    /\ DbIdle
    /\ fn = "serialize"
    /\ input \in SerializeInputs
    /\ output = <<>>

CallSerialize ==
    /\ fn = "serialize"
    /\ output = <<>>
    /\ output' = <<serialize(input)>>
    /\ UNCHANGED <<fn, input>>
    /\ UNCHANGED <<transportVars, dbVars>>

SpecSerialize == InitSerialize /\ [][CallSerialize]_vars

(***************************************************************************)
(* clearSensitiveFields.                                                   *)
(*                                                                         *)
(* A value is a tree: whether its type has 'bto', 'bcc' and 'object'       *)
(* properties (btoer, bccer, objecter), those properties (<<>> when nil,   *)
(* else <<list>>), and the values embedded in another of its properties,   *)
(* 'target'.  An element of 'object' or 'target' is an embedded value or   *)
(* an IRI.                                                                 *)
(***************************************************************************)
Node(btoer, bto, bccer, bcc, objecter, object, target) ==
    [btoer |-> btoer, bto |-> bto, bccer |-> bccer, bcc |-> bcc,
     objecter |-> objecter, object |-> object, target |-> target]
NoNode == Node(FALSE, <<>>, FALSE, <<>>, FALSE, <<>>, <<>>)
NodeEntry(n) == [kind |-> "type", v |-> n]
NodeIRI == [kind |-> "iri", v |-> NoNode]

\* "for list.Len() > 0 { list.Remove(0) }"
RECURSIVE RemoveAll(_)
RemoveAll(list) == IF Len(list) > 0 THEN RemoveAll(Remove(list, 1)) ELSE list

\* A transcription that does not descend into 'object'.
clearSensitiveFieldsShallow(obj) ==
    LET o1 == IF obj.btoer /\ obj.bto # <<>>
              THEN [obj EXCEPT !.bto = <<RemoveAll(obj.bto[1])>>] ELSE obj
    IN  IF o1.bccer /\ o1.bcc # <<>>
        THEN [o1 EXCEPT !.bcc = <<RemoveAll(o1.bcc[1])>>] ELSE o1

\* The value as the call leaves it.  An IRI element of 'object' has a nil
\* GetType(), on which the three type assertions fail: nothing is done.
RECURSIVE clearSensitiveFields(_)
clearSensitiveFields(obj) ==
    LET o1 == IF obj.btoer /\ obj.bto # <<>>
              THEN [obj EXCEPT !.bto = <<RemoveAll(obj.bto[1])>>] ELSE obj
        o2 == IF o1.bccer /\ o1.bcc # <<>>
              THEN [o1 EXCEPT !.bcc = <<RemoveAll(o1.bcc[1])>>] ELSE o1
    IN  IF o2.objecter /\ o2.object # <<>>
        THEN [o2 EXCEPT !.object =
                << [k \in 1..Len(o2.object[1]) |->
                      IF o2.object[1][k].kind = "type"
                      THEN NodeEntry(clearSensitiveFields(o2.object[1][k].v))
                      ELSE o2.object[1][k]] >>]
        ELSE o2

\* The inputs.  The hidden recipients of a value: none and the properties nil,
\* some in both properties, or a type with neither property.
ClearHidden ==
    { [btoer |-> TRUE, bto |-> <<>>, bccer |-> TRUE, bcc |-> <<>>],
      [btoer |-> TRUE, bto |-> << <<IRIEntry(A1)>> >>,
       bccer |-> TRUE, bcc |-> << <<IRIEntry(A1), IRIEntry(B1)>> >>],
      [btoer |-> FALSE, bto |-> <<>>, bccer |-> FALSE, bcc |-> <<>>] }

ClearLeaves ==
    { Node(h.btoer, h.bto, h.bccer, h.bcc, FALSE, <<>>, <<>>) : h \in ClearHidden }

\* The 'object' property of a value over the embedded values S: the type has
\* none, nil, one IRI, one value, or an IRI and a value.
ClearObjectProps(S) ==
    { [objecter |-> FALSE, object |-> <<>>], [objecter |-> TRUE, object |-> <<>>],
      [objecter |-> TRUE, object |-> << <<NodeIRI>> >>] }
    \cup { [objecter |-> TRUE, object |-> << <<NodeEntry(c)>> >>] : c \in S }
    \cup { [objecter |-> TRUE, object |-> << <<NodeIRI, NodeEntry(c)>> >>] : c \in S }

RECURSIVE ClearValues(_)
ClearValues(depth) ==
    IF depth = 0 THEN ClearLeaves
    ELSE LET below == ClearValues(depth - 1)
         IN  { Node(h.btoer, h.bto, h.bccer, h.bcc, op.objecter, op.object, tg) :
                  h \in ClearHidden, op \in ClearObjectProps(below),
                  tg \in {<<>>} \cup {<<NodeEntry(l)>> : l \in ClearLeaves} }

InitClear ==
    /\ TransportIdle
    /\ DbIdle
    /\ fn = "clearSensitiveFields"
    /\ input \in ClearValues(MaxDepth)
    /\ output = <<>>

CallClear ==
    /\ fn = "clearSensitiveFields"
    /\ output = <<>>
    /\ output' = <<clearSensitiveFields(input)>>
    /\ UNCHANGED <<fn, input>>
    /\ UNCHANGED <<transportVars, dbVars>>

SpecClear == InitClear /\ [][CallClear]_vars

(***************************************************************************)
(* HttpSigTransport: Deliver, BatchDeliver and Dereference.                *)
(*                                                                         *)
(* One transport value h.  Its methods have value receivers, so every call *)
(* works on a copy of h; the copies share the two mutexes, which h holds   *)
(* by pointer (NewHttpSigTransport), and the two signers.                  *)
(*                                                                         *)
(* One BatchDeliver call runs one goroutine per recipient, each calling    *)
(* h.Deliver; beside it run Dereference calls on the same transport.       *)
(***************************************************************************)
StatusOK == 200
StatusCreated == 201
StatusAccepted == 202
StatusNotFound == 404

\* The status codes the peer answers with.
Statuses == {StatusOK, StatusCreated, StatusAccepted, StatusNotFound}

\* A check of the status that takes StatusOK alone for a success.
isSuccessOnlyOK(code) == code = StatusOK

isSuccess(code) ==
    code = StatusOK \/ code = StatusCreated \/ code = StatusAccepted

\* A check in Dereference that takes every success of Deliver.
hasBodyOnSuccess(code) == isSuccess(code)

\* Dereference reads the body of a response of this status.
hasBody(code) == code = StatusOK

\* What a call returned: no error ("nil"; "body" for Dereference), or the
\* error of http.NewRequest ("request"), of SignRequest ("sign"), of
\* client.Do ("client") or the one made for a status code ("status").
Result(kind, to, code) == [kind |-> kind, to |-> to, code |-> code]
Pending == Result("pending", NoURL, 0)
Nil == Result("nil", NoURL, 0)
IsError(r) == r.kind \in {"request", "sign", "client", "status"}

\* The context of the request given to client.Do when Deliver or Dereference
\* is called with context c: the result of req.WithContext(c), a copy of the
\* request, is dropped, and req keeps the context http.NewRequest gave it.
requestContext(c) == "background"

\* Whether a context is done: the background context never is, the
\* caller's is once it is cancelled.
Done(ctx) == ctx = "c" /\ cancelled

\* sync.Mutex: Lock() returns only when no one holds it.
MutexFreeAlways(mu) == TRUE

MutexFree(mu) == mu = 0

\* A transcription in which the Unlock() after SignRequest comes after the
\* test of its error, so that a failed signing returns with the mutex held.
SignerUnlockAfterErrorTest(mu, failed) == IF failed THEN mu ELSE 0

\* The signer mutex mu after "Unlock()", which follows SignRequest directly,
\* before its error is tested: free, whether signing failed or not.
SignerUnlock(mu, failed) == 0

\* The error channel, were it made without a buffer.
errChCapUnbuffered(rs) == 0

\* The capacity of the error channel: "make(chan error, len(recipients))".
errChCap(rs) == Len(rs)

\* sync.WaitGroup: Wait() returns only when the counter is zero.
WaitDoneAlways(n) == TRUE

WaitDone(n) == n = 0

Tasks == 1..Len(recipients)
Calls == 1..Len(dpc)

(* h.Deliver, from the goroutine of recipient i.                           *)

\* http.NewRequest returns an error: Deliver returns it.
TaskRequestFails(i) ==
    /\ tpc[i] = "start"
    /\ tpc' = [tpc EXCEPT ![i] = "ret"]
    /\ tres' = [tres EXCEPT ![i] = Result("request", recipients[i], 0)]
    /\ UNCHANGED <<postSignerMu, batchVars, derefVars, utilVars, dbVars, httpVars>>

\* The request is built and h.postSignerMu.Lock() returns: SignRequest starts.
TaskLock(i) ==
    /\ tpc[i] = "start"
    /\ MutexFree(postSignerMu)
    /\ postSignerMu' = i
    /\ tpc' = [tpc EXCEPT ![i] = "signing"]
    /\ UNCHANGED <<tres, batchVars, derefVars, utilVars, dbVars, httpVars>>

\* SignRequest returns, with an error or without, and the mutex is unlocked.
TaskSigned(i) ==
    /\ tpc[i] = "signing"
    /\ \/ /\ tpc' = [tpc EXCEPT ![i] = "do"]
          /\ postSignerMu' = SignerUnlock(postSignerMu, FALSE)
          /\ UNCHANGED tres
       \/ /\ tpc' = [tpc EXCEPT ![i] = "ret"]
          /\ postSignerMu' = SignerUnlock(postSignerMu, TRUE)
          /\ tres' = [tres EXCEPT ![i] = Result("sign", recipients[i], 0)]
    /\ UNCHANGED <<batchVars, derefVars, utilVars, dbVars, httpVars>>

\* h.client.Do returns: an error, or, unless the context of the request is
\* done, a response with some status code.
TaskDo(i) ==
    /\ tpc[i] = "do"
    /\ tpc' = [tpc EXCEPT ![i] = "ret"]
    /\ \/ /\ tres' = [tres EXCEPT ![i] = Result("client", recipients[i], 0)]
          /\ UNCHANGED tresp
       \/ /\ ~Done(requestContext("c"))
          /\ \E code \in Statuses :
                /\ tresp' = [tresp EXCEPT ![i] = code]
                /\ tres' = [tres EXCEPT ![i] =
                             IF isSuccess(code) THEN Nil
                             ELSE Result("status", recipients[i], code)]
    /\ UNCHANGED <<postSignerMu, batchVars, derefVars, utilVars, dbVars,
                   cancelled, dresp>>

(* The goroutine around h.Deliver.                                         *)

\* "errCh <- err": blocks while the channel's buffer, of len(recipients), is
\* full.
TaskSend(i) ==
    /\ tpc[i] = "ret"
    /\ IsError(tres[i])
    /\ Len(errCh) < errChCap(recipients)
    /\ errCh' = Append(errCh, tres[i])
    /\ tpc' = [tpc EXCEPT ![i] = "sent"]
    /\ UNCHANGED <<tres, postSignerMu, recipients, bpc, spawned, wg, errs, bret,
                   derefVars, utilVars, dbVars, httpVars>>

\* "defer wg.Done()"
TaskDone(i) ==
    /\ \/ tpc[i] = "ret" /\ tres[i] = Nil
       \/ tpc[i] = "sent"
    /\ wg' = wg - 1
    /\ tpc' = [tpc EXCEPT ![i] = "done"]
    /\ UNCHANGED <<tres, postSignerMu, recipients, bpc, spawned, errCh, errs, bret,
                   derefVars, utilVars, dbVars, httpVars>>

(* BatchDeliver.                                                           *)

\* One iteration of the loop over recipients: wg.Add(1) and the go statement.
BatchSpawn ==
    /\ bpc = "spawn"
    /\ spawned < Len(recipients)
    /\ wg' = wg + 1
    /\ spawned' = spawned + 1
    /\ tpc' = [tpc EXCEPT ![spawned + 1] = "start"]
    /\ UNCHANGED <<tres, postSignerMu, recipients, bpc, errCh, errs, bret,
                   derefVars, utilVars, dbVars, httpVars>>

\* The loop ends and wg.Wait() is called.
BatchLoopEnd ==
    /\ bpc = "spawn"
    /\ spawned = Len(recipients)
    /\ bpc' = "wait"
    /\ UNCHANGED <<recipients, spawned, wg, errCh, errs, bret,
                   taskVars, derefVars, utilVars, dbVars, httpVars>>

\* wg.Wait() returns.
BatchWait ==
    /\ bpc = "wait"
    /\ WaitDone(wg)
    /\ bpc' = "drain"
    /\ UNCHANGED <<recipients, spawned, wg, errCh, errs, bret,
                   taskVars, derefVars, utilVars, dbVars, httpVars>>

\* The value BatchDeliver returns for the errors drained.
BatchResult(es) ==
    IF Len(es) > 0 THEN [nil |-> FALSE, errs |-> es] ELSE [nil |-> TRUE, errs |-> <<>>]

\* One pass of the drain loop: the select receives an error when the channel
\* holds one, and else takes its default case, which leaves the loop; the
\* function then returns.
BatchDrain ==
    /\ bpc = "drain"
    /\ IF errCh # <<>>
       THEN /\ errs' = Append(errs, Head(errCh))
            /\ errCh' = Tail(errCh)
            /\ UNCHANGED <<bpc, bret>>
       ELSE /\ bpc' = "done"
            /\ bret' = <<BatchResult(errs)>>
            /\ UNCHANGED <<errCh, errs>>
    /\ UNCHANGED <<recipients, spawned, wg, taskVars, derefVars, utilVars, dbVars, httpVars>>

(* h.Dereference, call j.                                                  *)

DerefRequestFails(j) ==
    /\ dpc[j] = "start"
    /\ dpc' = [dpc EXCEPT ![j] = "done"]
    /\ dres' = [dres EXCEPT ![j] = Result("request", NoURL, 0)]
    /\ UNCHANGED <<getSignerMu, batchVars, taskVars, utilVars, dbVars, httpVars>>

\* The request is built and h.getSignerMu.Lock() returns: SignRequest starts.
DerefLock(j) ==
    /\ dpc[j] = "start"
    /\ MutexFree(getSignerMu)
    /\ getSignerMu' = j
    /\ dpc' = [dpc EXCEPT ![j] = "signing"]
    /\ UNCHANGED <<dres, batchVars, taskVars, utilVars, dbVars, httpVars>>

\* SignRequest returns, with an error or without, and the mutex is unlocked.
DerefSigned(j) ==
    /\ dpc[j] = "signing"
    /\ \/ /\ dpc' = [dpc EXCEPT ![j] = "do"]
          /\ getSignerMu' = SignerUnlock(getSignerMu, FALSE)
          /\ UNCHANGED dres
       \/ /\ dpc' = [dpc EXCEPT ![j] = "done"]
          /\ getSignerMu' = SignerUnlock(getSignerMu, TRUE)
          /\ dres' = [dres EXCEPT ![j] = Result("sign", NoURL, 0)]
    /\ UNCHANGED <<batchVars, taskVars, utilVars, dbVars, httpVars>>

\* h.client.Do returns: an error, or, unless the context of the request is
\* done, a response with some status code, whose body is returned only for
\* StatusOK.
DerefDo(j) ==
    /\ dpc[j] = "do"
    /\ dpc' = [dpc EXCEPT ![j] = "done"]
    /\ \/ /\ dres' = [dres EXCEPT ![j] = Result("client", NoURL, 0)]
          /\ UNCHANGED dresp
       \/ /\ ~Done(requestContext("c"))
          /\ \E code \in Statuses :
                /\ dresp' = [dresp EXCEPT ![j] = code]
                /\ dres' = [dres EXCEPT ![j] =
                             IF ~hasBody(code) THEN Result("status", NoURL, code)
                             ELSE Result("body", NoURL, code)]
    /\ UNCHANGED <<getSignerMu, batchVars, taskVars, utilVars, dbVars,
                   cancelled, tresp>>

RecipientURLs == {A1, B1}

\* The recipient lists: every list over the two URLs, repeated entries
\* included, up to the exchange of the two URLs.
RecipientLists ==
    {r \in SeqsUpTo(RecipientURLs, MaxRecipients) : r = <<>> \/ r[1] = A1}

InitTransport ==
    /\ UtilIdle
    /\ DbIdle
    /\ recipients \in RecipientLists
    /\ bpc = "spawn" /\ spawned = 0 /\ wg = 0
    /\ errCh = <<>> /\ errs = <<>> /\ bret = <<>>
    /\ tpc = [i \in 1..Len(recipients) |-> "none"]
    /\ tres = [i \in 1..Len(recipients) |-> Pending]
    /\ postSignerMu = 0
    /\ \E n \in 0..MaxDereferences :
          /\ Len(recipients) + n <= MaxCalls
          /\ dpc = [j \in 1..n |-> "start"]
          /\ dres = [j \in 1..n |-> Pending]
    /\ getSignerMu = 0
    /\ cancelled = FALSE
    /\ tresp = [i \in 1..Len(recipients) |-> 0]
    /\ dresp = [j \in 1..Len(dpc) |-> 0]

NextTransport ==
    \/ BatchSpawn \/ BatchLoopEnd \/ BatchWait \/ BatchDrain
    \/ \E i \in Tasks : TaskRequestFails(i)
    \/ \E i \in Tasks : TaskLock(i)
    \/ \E i \in Tasks : TaskSigned(i)
    \/ \E i \in Tasks : TaskDo(i)
    \/ \E i \in Tasks : TaskSend(i)
    \/ \E i \in Tasks : TaskDone(i)
    \/ \E j \in Calls : DerefRequestFails(j)
    \/ \E j \in Calls : DerefLock(j)
    \/ \E j \in Calls : DerefSigned(j)
    \/ \E j \in Calls : DerefDo(j)

SpecTransport == InitTransport /\ [][NextTransport]_vars

\* The steps of the goroutine of recipient i, and of BatchDeliver itself.
TaskStep(i) ==
    /\ i \in Tasks
    /\ \/ TaskRequestFails(i) \/ TaskLock(i) \/ TaskSigned(i)
       \/ TaskDo(i) \/ TaskSend(i) \/ TaskDone(i)

BatchStep == BatchSpawn \/ BatchLoopEnd \/ BatchWait \/ BatchDrain

\* The transport calls when every goroutine that can run does run in the
\* end, and SignRequest and client.Do return to the Deliver that called them.
\* A Dereference call may take for ever.
FairTransport ==
    /\ WF_vars(BatchStep)
    /\ \A i \in 1..MaxRecipients : WF_vars(TaskStep(i))

SpecTransportFair == SpecTransport /\ FairTransport

\* The caller cancels the context it gave to Deliver, BatchDeliver and
\* Dereference.
Cancel ==
    /\ ~cancelled
    /\ cancelled' = TRUE
    /\ UNCHANGED <<tresp, dresp, batchVars, taskVars, derefVars, utilVars, dbVars>>

\* The transport calls with a caller that may cancel their context at any
\* moment.
InitCancel == InitTransport /\ Len(recipients) <= 1

NextCancel == NextTransport \/ Cancel

SpecCancel == InitCancel /\ [][NextCancel]_vars

(***************************************************************************)
(* add, remove and mustHaveActivityActorsMatchObjectActors.                *)
(*                                                                         *)
(* Callers run concurrently against one Database.  Each call of the        *)
(* Database or Transport interface is one step; what a function computes   *)
(* between two such calls belongs to the step of the earlier one.          *)
(***************************************************************************)
T1 == URL("a.example", "https://a.example/c/1")
T2 == URL("a.example", "https://a.example/c/2")
X == URL("a.example", "https://a.example/o/x")
Y == URL("b.example", "https://b.example/o/y")

\* vocab.Type as add and remove see what Database.Get returns: its type
\* name and its 'items' and 'orderedItems' properties.
Stored(name, items, orderedItems) ==
    [typeName |-> name, items |-> items, orderedItems |-> orderedItems]
NoStored == Stored("", <<>>, <<>>)

IsOrExtendsActivityStreamsOrderedCollection(tp) ==
    tp.typeName \in {"OrderedCollection", "OrderedCollectionPage"}

IsOrExtendsActivityStreamsCollection(tp) ==
    tp.typeName \in {"Collection", "CollectionPage",
                     "OrderedCollection", "OrderedCollectionPage"}

\* The result of a step of loopFn: the error it returns with ("" when it goes
\* on or returns nil) and the value tp as changed in place.
Step(err, tp) == [err |-> err, tp |-> tp]

\* The ids of a property, or Err when ToId fails on one of its elements.
RECURSIVE ids(_, _)
ids(prop, i) ==
    IF i > Len(prop) THEN [ok |-> TRUE, ids |-> <<>>]
    ELSE IF ~ToId(prop[i]).ok THEN [ok |-> FALSE, ids |-> <<>>]
    ELSE LET rest == ids(prop, i + 1)
         IN  [ok |-> rest.ok,
              ids |-> IF rest.ok THEN <<ToId(prop[i]).url>> \o rest.ids ELSE <<>>]

\* AppendIRI for every id of opIds, on a property that is created when nil.
appendIRIs(prop, opIds) ==
    LET list == IF prop = <<>> THEN <<>> ELSE prop[1]
    IN  <<list \o [k \in 1..Len(opIds) |-> IRIEntry(opIds[k])]>>

\* A transcription of add that leaves a value of another kind as it is and
\* goes on.
addToCollectionsOnly(tp, opIds) ==
    IF IsOrExtendsActivityStreamsOrderedCollection(tp)
    THEN Step("", [tp EXCEPT !.orderedItems = appendIRIs(@, opIds)])
    ELSE IF IsOrExtendsActivityStreamsCollection(tp)
    THEN Step("", [tp EXCEPT !.items = appendIRIs(@, opIds)])
    ELSE Step("", tp)

\* A transcription of add that appends to 'items' whatever the collection.
addToItems(tp, opIds) ==
    IF IsOrExtendsActivityStreamsCollection(tp)
    THEN Step("", [tp EXCEPT !.items = appendIRIs(@, opIds)])
    ELSE Step("target in Add is neither a Collection nor an OrderedCollection", tp)

\* add's loopFn between Get and Update.
addTo(tp, opIds) ==
    IF IsOrExtendsActivityStreamsOrderedCollection(tp)
    THEN Step("", [tp EXCEPT !.orderedItems = appendIRIs(@, opIds)])
    ELSE IF IsOrExtendsActivityStreamsCollection(tp)
    THEN Step("", [tp EXCEPT !.items = appendIRIs(@, opIds)])
    ELSE Step("target in Add is neither a Collection nor an OrderedCollection", tp)

\* A removal loop that ends at the first element it removes.
RECURSIVE removeLoopFirstOnly(_, _, _)
removeLoopFirstOnly(list, i, opIds) ==
    IF i > Len(list) THEN [ok |-> TRUE, list |-> list]
    ELSE IF ~ToId(list[i]).ok THEN [ok |-> FALSE, list |-> list]
    ELSE IF ToId(list[i]).url.str \in opIds
    THEN [ok |-> TRUE, list |-> Remove(list, i)]
    ELSE removeLoopFirstOnly(list, i + 1, opIds)

\* The removal loop of remove over the list of a property, at index i; opIds
\* is the set of id strings.
RECURSIVE removeLoop(_, _, _)
removeLoop(list, i, opIds) ==
    IF i > Len(list) THEN [ok |-> TRUE, list |-> list]
    ELSE IF ~ToId(list[i]).ok THEN [ok |-> FALSE, list |-> list]
    ELSE IF ToId(list[i]).url.str \in opIds
    THEN removeLoop(Remove(list, i), i, opIds)
    ELSE removeLoop(list, i + 1, opIds)

removeFromProp(prop, opIds) ==
    IF prop = <<>> THEN [ok |-> TRUE, prop |-> prop]
    ELSE LET r == removeLoop(prop[1], 1, opIds)
         IN  [ok |-> r.ok, prop |-> <<r.list>>]

\* remove's loopFn between Get and Update.
removeFrom(tp, opIds) ==
    IF IsOrExtendsActivityStreamsOrderedCollection(tp)
    THEN LET r == removeFromProp(tp.orderedItems, opIds)
         IN  Step(IF r.ok THEN "" ELSE "ToId", [tp EXCEPT !.orderedItems = r.prop])
    ELSE IF IsOrExtendsActivityStreamsCollection(tp)
    THEN LET r == removeFromProp(tp.items, opIds)
         IN  Step(IF r.ok THEN "" ELSE "ToId", [tp EXCEPT !.items = r.prop])
    ELSE Step("target in Remove is neither a Collection nor an OrderedCollection", tp)

\* The callers, and one call of theirs to the Database or Transport.
Procs == {"p", "q"}
Event(call, t) == [call |-> call, t |-> t]

\* A caller's calls: the functions it calls one after the other, all with
\* the 'object', 'target' and 'actor' properties of one activity.
Prog(ops, objs, targets, actors) ==
    [ops |-> ops, objs |-> objs, targets |-> targets, actors |-> actors]

\* A caller's position: the step pc of call number pci, the index ti of the
\* target or object it is at, the value tp it got, and the error loopFn
\* returns once its deferred Unlock has run.
Loc(pc, pci, ti, tp, err) ==
    [pc |-> pc, pci |-> pci, ti |-> ti, tp |-> tp, err |-> err]

\* The function caller p is in, "" after its last call.
Fn(p) ==
    IF loc[p].pci <= Len(prog[p].ops) THEN prog[p].ops[loc[p].pci] ELSE ""

opIds(p) == ids(prog[p].objs, 1)
targetIds(p) == ids(prog[p].targets, 1)

\* The target t of caller p's loopFn, as the string that identifies it.
Target(p) == targetIds(p).ids[loc[p].ti].str

\* The calls deferred when loopFn returns on the given path, were the defer
\* statement placed before the call of Lock.
DeferredBeforeLock(path) == <<"Unlock">>

\* The same, were the early return for a target that is not owned placed
\* before the defer statement.
DeferredAfterOwns(path) ==
    IF path \in {"lock", "notowned"} THEN <<>> ELSE <<"Unlock">>

\* The calls deferred when loopFn returns on the given path: Unlock is
\* deferred once Lock has succeeded.
Deferred(path) == IF path = "lock" THEN <<>> ELSE <<"Unlock">>

\* Caller p's current function returns err, having made the calls evs.
FnReturn(p, err, evs) ==
    /\ rets' = [rets EXCEPT ![p] = Append(@, err)]
    /\ trace' = [trace EXCEPT ![p] = @ \o evs \o <<Event("return", "")>>]
    /\ loc' = [loc EXCEPT ![p] =
                  Loc(IF @.pci < Len(prog[p].ops) THEN "start" ELSE "done",
                      @.pci + 1, 0, NoStored, "")]

\* The loop over targetIds after loopFn returned err: return the error, go
\* on with the next target, or return nil after the last.
LoopNext(p, err, evs) ==
    IF err = "" /\ loc[p].ti < Len(targetIds(p).ids)
    THEN /\ loc' = [loc EXCEPT ![p] = Loc("lock", @.pci, @.ti + 1, NoStored, "")]
         /\ trace' = [trace EXCEPT ![p] = @ \o evs]
         /\ UNCHANGED rets
    ELSE FnReturn(p, err, evs)

\* loopFn returns err on the given path, having made the calls evs: its
\* deferred calls run first.
LoopFnReturn(p, path, err, evs) ==
    IF Deferred(path) # <<>>
    THEN /\ loc' = [loc EXCEPT ![p].pc = "unlock", ![p].err = err]
         /\ trace' = [trace EXCEPT ![p] = @ \o evs]
         /\ UNCHANGED rets
    ELSE LoopNext(p, err, evs)

\* add or remove is called: the ids of the objects and of the targets.
CallStart(p) ==
    /\ loc[p].pc = "start" /\ Fn(p) \in {"add", "remove"}
    /\ IF ~opIds(p).ok \/ ~targetIds(p).ok THEN FnReturn(p, "ToId", <<>>)
       ELSE LoopNext(p, "", <<>>)
    /\ UNCHANGED <<db, owns, locks, prog, got, utilVars, transportVars>>

\* A Database whose Lock does not wait for the holder of the lock.
LockFreeAlways(holder) == TRUE

\* Database.Lock is mutually exclusive per IRI: it returns only when no
\* caller holds the lock of the IRI.
LockFree(holder) == holder = ""

\* db.Lock(c, t) returns nil, which it does once no caller holds the lock.
DbLock(p) ==
    /\ loc[p].pc = "lock"
    /\ LockFree(locks[Target(p)])
    /\ locks' = [locks EXCEPT ![Target(p)] = p]
    /\ loc' = [loc EXCEPT ![p].pc = "owns"]
    /\ trace' = [trace EXCEPT ![p] = Append(@, Event("Lock", Target(p)))]
    /\ UNCHANGED <<db, owns, prog, rets, got, utilVars, transportVars>>

\* db.Lock(c, t) returns an error.
DbLockFails(p) ==
    /\ loc[p].pc = "lock"
    /\ LoopFnReturn(p, "lock", "Lock", <<Event("LockFailed", Target(p))>>)
    /\ UNCHANGED <<db, owns, locks, prog, got, utilVars, transportVars>>

\* db.Owns(c, t).
DbOwns(p) ==
    /\ loc[p].pc = "owns"
    /\ \/ LoopFnReturn(p, "owns", "Owns", <<Event("Owns", Target(p))>>)
       \/ /\ Target(p) \notin owns
          /\ LoopFnReturn(p, "notowned", "", <<Event("Owns", Target(p))>>)
       \/ /\ Target(p) \in owns
          /\ loc' = [loc EXCEPT ![p].pc = "get"]
          /\ trace' = [trace EXCEPT ![p] = Append(@, Event("Owns", Target(p)))]
          /\ UNCHANGED rets
    /\ UNCHANGED <<db, owns, locks, prog, got, utilVars, transportVars>>

\* db.Get(c, t), and the change of the value got.
DbGet(p) ==
    /\ loc[p].pc = "get"
    /\ \/ LoopFnReturn(p, "get", "Get", <<Event("Get", Target(p))>>)
       \/ LET s == IF Fn(p) = "add"
                   THEN addTo(db[Target(p)], opIds(p).ids)
                   ELSE removeFrom(db[Target(p)],
                                   {opIds(p).ids[k].str : k \in 1..Len(opIds(p).ids)})
          IN  IF s.err # ""
              THEN LoopFnReturn(p, "kind", s.err, <<Event("Get", Target(p))>>)
              ELSE /\ loc' = [loc EXCEPT ![p].pc = "update", ![p].tp = s.tp]
                   /\ trace' = [trace EXCEPT ![p] = Append(@, Event("Get", Target(p)))]
                   /\ UNCHANGED rets
    /\ UNCHANGED <<db, owns, locks, prog, got, utilVars, transportVars>>

\* db.Update(c, tp).
DbUpdate(p) ==
    /\ loc[p].pc = "update"
    /\ \/ /\ LoopFnReturn(p, "update", "Update", <<Event("Update", Target(p))>>)
          /\ UNCHANGED db
       \/ /\ db' = [db EXCEPT ![Target(p)] = loc[p].tp]
          /\ LoopFnReturn(p, "ok", "", <<Event("Update", Target(p))>>)
    /\ UNCHANGED <<owns, locks, prog, got, utilVars, transportVars>>

\* The deferred db.Unlock(c, t), whose result is dropped.
DbUnlock(p) ==
    /\ loc[p].pc = "unlock"
    /\ locks' = [locks EXCEPT ![Target(p)] = IF @ = p THEN "" ELSE @]
    /\ LoopNext(p, loc[p].err, <<Event("Unlock", Target(p))>>)
    /\ UNCHANGED <<db, owns, prog, got, utilVars, transportVars>>

\* The value t of an object as mustHaveActivityActorsMatchObjectActors sees
\* it, embedded or made by ToType of what was dereferenced: whether the type
\* has an 'actor' property, and that property.
Fetched(actorer, actor) == [actorer |-> actorer, actor |-> actor]

\* An embedded object with its 'id' and 'actor' properties.
Embedded(id, actorer, actor) ==
    [id |-> id, hrefer |-> FALSE, href |-> <<>>,
     actorer |-> actorer, actor |-> actor]

FetchedValues ==
    {Fetched(FALSE, <<>>), Fetched(TRUE, <<>>),
     Fetched(TRUE, <<<<IRIEntry(A1)>>>>),
     Fetched(TRUE, <<<<IRIEntry(A1), IRIEntry(B1)>>>>),
     Fetched(TRUE, <<<<OtherEntry>>>>)}

\* activityActorMap.
activityActorMap(p) ==
    LET a == ids(prog[p].actors, 1).ids IN {a[k].str : k \in 1..Len(a)}

\* The loop over the objects goes on with the next object, or returns nil
\* after the last.
ObjectsNext(p, evs) ==
    IF loc[p].ti < Len(prog[p].objs)
    THEN /\ loc' = [loc EXCEPT ![p] = Loc("object", @.pci, @.ti + 1, NoStored, "")]
         /\ trace' = [trace EXCEPT ![p] = @ \o evs]
         /\ UNCHANGED rets
    ELSE FnReturn(p, "", evs)

\* mustHaveActivityActorsMatchObjectActors is called: the ids of the actors.
ActorsStart(p) ==
    /\ loc[p].pc = "start" /\ Fn(p) = "actors"
    /\ IF ~ids(prog[p].actors, 1).ok THEN FnReturn(p, "ToId", <<>>)
       ELSE ObjectsNext(p, <<>>)
    /\ UNCHANGED <<db, owns, locks, prog, got, utilVars, transportVars>>

\* One object of the activity: only an IRI is looked at, through a new
\* Transport whose Dereference is called; for an embedded value t, and for
\* an element that is neither, the function returns an error.
ActorsObject(p) ==
    /\ loc[p].pc = "object"
    /\ IF prog[p].objs[loc[p].ti].kind = "iri"
       THEN /\ \/ FnReturn(p, "newTransport", <<>>)
               \/ /\ loc' = [loc EXCEPT ![p].pc = "deref"]
                  /\ trace' = [trace EXCEPT ![p] =
                                  Append(@, Event("Dereference",
                                                  prog[p].objs[loc[p].ti].iri.str))]
                  /\ UNCHANGED rets
            /\ UNCHANGED got
       ELSE /\ FnReturn(p, "cannot verify actors: object is neither a value nor IRI",
                        <<>>)
            /\ got' = [got EXCEPT ![p] =
                          IF prog[p].objs[loc[p].ti].kind = "type"
                          THEN Append(@, Fetched(prog[p].objs[loc[p].ti].v.actorer,
                                                 prog[p].objs[loc[p].ti].v.actor))
                          ELSE @]
    /\ UNCHANGED <<db, owns, locks, prog, utilVars, transportVars>>

\* tport.Dereference returns: an error, bytes that json.Unmarshal or ToType
\* rejects, or a value t whose actors are compared with the activity's.  A
\* value whose 'actor' property is nil makes objActors.Begin() panic.
ActorsDereferenced(p) ==
    /\ loc[p].pc = "deref"
    /\ \/ FnReturn(p, "Dereference", <<>>) /\ UNCHANGED got
       \/ FnReturn(p, "Unmarshal", <<>>) /\ UNCHANGED got
       \/ \E t \in FetchedValues :
          /\ got' = [got EXCEPT ![p] = Append(@, t)]
          /\ IF ~t.actorer
             THEN FnReturn(p, "cannot verify actors: object value has no 'actor' property",
                           <<>>)
             ELSE IF t.actor = <<>> THEN FnReturn(p, "panic", <<>>)
             ELSE LET objActors == t.actor[1]
                      \* the first actor the loop returns an error at, 0 if none
                      bad == {k \in 1..Len(objActors) :
                                 \/ ~ToId(objActors[k]).ok
                                 \/ ToId(objActors[k]).url.str \notin activityActorMap(p)}
                      first == IF bad = {} THEN 0
                               ELSE CHOOSE k \in bad : \A j \in bad : k <= j
                  IN  IF first = 0 THEN ObjectsNext(p, <<>>)
                      ELSE IF ~ToId(objActors[first]).ok THEN FnReturn(p, "ToId", <<>>)
                      ELSE FnReturn(p, "activity does not have all actors from its object's actors",
                                    <<>>)
    /\ UNCHANGED <<db, owns, locks, prog, utilVars, transportVars>>

\* The Databases the callers start with: which IRIs are owned and what is
\* stored under them.
Fixture(o, v1, v2) == [owns |-> o, db |-> (T1.str :> v1) @@ (T2.str :> v2)]

Fixtures ==
    {Fixture({T1.str, T2.str},
             Stored("OrderedCollection", <<>>,
                    <<<<IRIEntry(X), IRIEntry(A1), IRIEntry(X)>>>>),
             Stored("Collection", <<>>, <<>>)),
     Fixture({T1.str, T2.str},
             Stored("Collection", <<<<IRIEntry(Y), OtherEntry>>>>, <<>>),
             Stored("OrderedCollectionPage", <<>>, <<>>)),
     Fixture({T2.str},
             Stored("OrderedCollection", <<>>, <<<<IRIEntry(X)>>>>),
             Stored("Note", <<>>, <<>>)),
     Fixture({T2.str},
             Stored("Collection", <<<<IRIEntry(X)>>>>, <<>>),
             Stored("OrderedCollection", <<>>, <<<<IRIEntry(Y), IRIEntry(X)>>>>))}

\* The 'target' properties: every list of the two collections, and one with
\* an element that has no id.
TargetProps ==
    SeqsUpTo({IRIEntry(T1), IRIEntry(T2)}, MaxTargets) \cup {<<OtherEntry>>}

\* What the first caller does: add or remove, on objects that all have an
\* id or not; or the check of the actors, alone or after add; or remove
\* after add or after another remove, of the same object on the same targets.
FirstProgs ==
    {Prog(ops, objs, targets, <<IRIEntry(A1)>>) :
        ops \in {<<"add">>, <<"remove">>},
        objs \in {<<IRIEntry(X)>>,
                  <<TypeEntry(Value(<<X>>, FALSE, <<>>)), OtherEntry>>},
        targets \in TargetProps}
    \cup {Prog(ops, objs, targets, actors) :
             ops \in {<<"actors">>, <<"add", "actors">>},
             objs \in {<<IRIEntry(X)>>, <<IRIEntry(X), IRIEntry(Y)>>,
                       <<TypeEntry(Embedded(<<X>>, TRUE, <<<<IRIEntry(A1)>>>>))>>,
                       <<IRIEntry(X),
                         TypeEntry(Embedded(<<Y>>, TRUE, <<<<IRIEntry(B1)>>>>))>>},
             targets \in {<<IRIEntry(T1)>>, <<IRIEntry(T2), IRIEntry(T1)>>},
             actors \in {<<IRIEntry(A1)>>, <<OtherEntry>>}}
    \cup {Prog(ops, <<IRIEntry(X)>>, targets, <<IRIEntry(A1)>>) :
             ops \in {<<"add", "remove">>, <<"remove", "remove">>},
             targets \in TargetProps}

\* What the second caller does meanwhile: add or remove of another object
\* on the targets in the other order.
SecondProgs ==
    {Prog(ops, <<IRIEntry(Y)>>, targets, <<>>) :
        ops \in {<<"add">>, <<"remove">>},
        targets \in {<<IRIEntry(T2), IRIEntry(T1)>>, <<IRIEntry(T1)>>}}

\* The first caller alone, or two concurrent calls on targets that are
\* collections.
Scenarios ==
    {("p" :> a) @@ ("q" :> Prog(<<>>, <<>>, <<>>, <<>>)) : a \in FirstProgs}
    \cup {("p" :> a) @@ ("q" :> b) :
             a \in {f \in FirstProgs :
                       /\ Len(f.ops) = 1 /\ f.ops[1] # "actors"
                       /\ f.objs = <<IRIEntry(X)>>
                       /\ f.targets \notin {<<>>, <<OtherEntry>>}},
             b \in SecondProgs}

InitDb ==
    /\ UtilIdle
    /\ TransportIdle
    /\ \E f \in Fixtures : db = f.db /\ owns = f.owns
    /\ locks = [t \in {T1.str, T2.str} |-> ""]
    /\ prog \in Scenarios
    /\ loc = [p \in Procs |->
                 Loc(IF prog[p].ops = <<>> THEN "done" ELSE "start",
                     1, 0, NoStored, "")]
    /\ rets = [p \in Procs |-> <<>>]
    /\ trace = [p \in Procs |-> <<>>]
    /\ got = [p \in Procs |-> <<>>]

NextDb ==
    \/ \E p \in Procs : CallStart(p)
    \/ \E p \in Procs : DbLock(p)
    \/ \E p \in Procs : DbLockFails(p)
    \/ \E p \in Procs : DbOwns(p)
    \/ \E p \in Procs : DbGet(p)
    \/ \E p \in Procs : DbUpdate(p)
    \/ \E p \in Procs : DbUnlock(p)
    \/ \E p \in Procs : ActorsStart(p)
    \/ \E p \in Procs : ActorsObject(p)
    \/ \E p \in Procs : ActorsDereferenced(p)

SpecDb == InitDb /\ [][NextDb]_vars

(***************************************************************************)
(* Claims.                                                                 *)
(***************************************************************************)
IdStr(e) == ToId(e).url.str
IdStrs(s) == {IdStr(s[k]) : k \in 1..Len(s)}
NoDupIds(s) == \A j, k \in 1..Len(s) : j # k => IdStr(s[j]) # IdStr(s[k])

\* The elements of s whose id no earlier element has, in their order.
RECURSIVE FirstOccurrences(_)
FirstOccurrences(s) ==
    IF s = <<>> THEN <<>>
    ELSE LET n == Len(s)
             front == SubSeq(s, 1, n - 1)
         IN  IF \E j \in 1..(n - 1) : IdStr(s[j]) = IdStr(s[n])
             THEN FirstOccurrences(front)
             ELSE Append(FirstOccurrences(front), s[n])

\* The elements of s that satisfy ~IsPublic, in their order.
RECURSIVE NonPublic(_)
NonPublic(s) ==
    IF s = <<>> THEN <<>>
    ELSE IF IsPublic(Head(s).str) THEN NonPublic(Tail(s))
    ELSE <<Head(s)>> \o NonPublic(Tail(s))

\* C3: after dedupeOrderedItems returns without error no two elements of
\* orderedItems have the same id string, every id present before the call is
\* still present, and the elements left are the first occurrences of each id
\* in their original order.
C3_DedupeFirstOccurrences ==
    (fn = "dedupeOrderedItems" /\ output # <<>> /\ ~output[1].err /\ input # <<>>)
        => /\ NoDupIds(output[1].oi)
           /\ IdStrs(output[1].oi) = IdStrs(input[1])
           /\ output[1].oi = FirstOccurrences(input[1])

\* A call that dropped a later duplicate, one of them embedded and one an IRI,
\* from between two other elements.
C3_Witness ==
    /\ fn = "dedupeOrderedItems" /\ output # <<>> /\ ~output[1].err /\ input # <<>>
    /\ Len(input[1]) = 3 /\ Len(output[1].oi) = 2
    /\ input[1][1].kind = "type" /\ input[1][2].kind = "iri"
    /\ IdStr(input[1][1]) = IdStr(input[1][2])

\* C9: filterURLs(u, IsPublic) holds no entry whose string is the Public
\* collection IRI or one of its short forms, and holds every other entry of u
\* in its original order, also when public entries are adjacent, first or last.
C9_FilterRemovesPublic ==
    (fn = "filterURLs" /\ output # <<>>)
        => /\ \A k \in 1..Len(output[1]) : ~IsPublic(output[1][k].str)
           /\ output[1] = NonPublic(input)

\* A call on a list that starts with two adjacent public entries.
C9_Witness ==
    /\ fn = "filterURLs" /\ output # <<>>
    /\ Len(input) = 3 /\ IsPublic(input[1].str) /\ IsPublic(input[2].str)
    /\ ~IsPublic(input[3].str)
    /\ output[1] = <<input[3]>>

\* C6: mustHaveActivityOriginMatchObjects returns an error whenever the host of
\* the activity's id differs from the host of the id of any of its objects,
\* returns nil when every object's id host equals the activity's id host
\* (also when there are no objects), and never modifies the activity.
C6_OriginMatch ==
    (fn = "mustHaveActivityOriginMatchObjects" /\ output # <<>> /\ GetId(input.v).ok)
        => LET host == GetId(input.v).url.host
               objs == IF input.op = <<>> THEN <<>> ELSE input.op[1]
           IN  /\ (\E k \in 1..Len(objs) :
                      ToId(objs[k]).ok /\ ToId(objs[k]).url.host # host)
                    => output[1].err
               /\ (\A k \in 1..Len(objs) :
                      ToId(objs[k]).ok /\ ToId(objs[k]).url.host = host)
                    => ~output[1].err
               /\ output[1].a = input

\* A call that returned an error for an activity whose first object is on the
\* activity's host and whose second is not.
C6_Witness ==
    /\ fn = "mustHaveActivityOriginMatchObjects" /\ output # <<>>
    /\ GetId(input.v).ok /\ input.op # <<>> /\ Len(input.op[1]) = 2
    /\ ToId(input.op[1][1]).ok /\ ToId(input.op[1][2]).ok
    /\ ToId(input.op[1][1]).url.host = GetId(input.v).url.host
    /\ ToId(input.op[1][2]).url.host # GetId(input.v).url.host
    /\ output[1].err

\* C10: tombstoning is idempotent: toTombstone(toTombstone(o, id, t1), id, t2)
\* equals toTombstone(o, id, t1) in id, formerType, published and updated.
C10_TombstoneIdempotent ==
    (fn = "toTombstone" /\ Len(output) = 2)
        => /\ output[2].id = output[1].id
           /\ output[2].formerType = output[1].formerType
           /\ output[2].published = output[1].published
           /\ output[2].updated = output[1].updated

\* The ids of an addressing property that is set.
AddrIds(prop) == {u.str : u \in IdMap(prop[1])}

NormSymmetric(a) ==
    \A d \in DimSet :
        AddrIds(a.addr[d]) = UNION {AddrIds(a.object[i].v.addr[d]) : i \in 1..Len(a.object)}

\* C4 as stated: for every Create on which normalizeRecipients returns without
\* error, and every dimension D, the set of ids in activity.D equals the union
\* over all objects of the sets of ids in object.D.
C4_SymmetryAnyCreate ==
    (fn = "normalizeRecipients" /\ output # <<>> /\ ~output[1].err)
        => NormSymmetric(output[1].a)

\* C4 as amended: the same, for every Create that has at least one object.
C4_SymmetryWithObjects ==
    (fn = "normalizeRecipients" /\ output # <<>> /\ ~output[1].err
        /\ Len(input.object) >= 1)
        => NormSymmetric(output[1].a)

\* A successful call on a Create with two objects, where the activity and the
\* two objects each came with a recipient list of their own.
C4_Witness ==
    /\ fn = "normalizeRecipients" /\ output # <<>> /\ ~output[1].err
    /\ Len(input.object) = 2
    /\ \E d \in DimSet :
          /\ input.addr[d] = << <<IRIEntry(A1)>> >>
          /\ input.object[1].v.addr[d] = << <<IRIEntry(B1)>> >>
          /\ input.object[2].v.addr[d] = <<>>
          /\ AddrIds(output[1].a.addr[d]) = {A1.str, B1.str}

HasHidden(v) ==
    \/ (v.bto # <<>> /\ Len(v.bto[1]) > 0)
    \/ (v.bcc # <<>> /\ Len(v.bcc[1]) > 0)

EmbeddedIn(prop) ==
    IF prop = <<>> THEN {}
    ELSE {prop[1][k].v : k \in {j \in 1..Len(prop[1]) : prop[1][j].kind = "type"}}

\* Some value of the tree under v, v included, has hidden recipients.
RECURSIVE HiddenAnywhere(_)
HiddenAnywhere(v) ==
    \/ HasHidden(v)
    \/ \E c \in EmbeddedIn(v.object) : HiddenAnywhere(c)
    \/ \E c \in {v.target[k].v : k \in 1..Len(v.target)} : HiddenAnywhere(c)

\* Some value reached from v through 'object' properties only, v included,
\* has hidden recipients.
RECURSIVE HiddenUnderObject(_)
HiddenUnderObject(v) ==
    \/ HasHidden(v)
    \/ \E c \in EmbeddedIn(v.object) : HiddenUnderObject(c)

\* C5 as stated: after clearSensitiveFields(v) no value anywhere in the tree of
\* values nested under v carries a non-empty 'bto' or 'bcc' list.
C5_NoHiddenAnywhere ==
    (fn = "clearSensitiveFields" /\ output # <<>>) => ~HiddenAnywhere(output[1])

\* C5 as amended: after clearSensitiveFields(v) neither v nor any value reached
\* from v through 'object' properties carries a non-empty 'bto' or 'bcc' list.
C5_NoHiddenUnderObject ==
    (fn = "clearSensitiveFields" /\ output # <<>>) => ~HiddenUnderObject(output[1])

\* A call on a value that is clean itself and whose object's object, behind an
\* IRI element, had hidden recipients.
C5_Witness ==
    /\ fn = "clearSensitiveFields" /\ output # <<>>
    /\ ~HasHidden(input) /\ input.object # <<>> /\ Len(input.object[1]) = 2
    /\ LET c == input.object[1][2].v
       IN  /\ ~HasHidden(c) /\ c.object # <<>> /\ Len(c.object[1]) = 2
           /\ HasHidden(c.object[1][2].v)
    /\ ~HiddenUnderObject(output[1])

\* How many of the elements of the sequence s equal e.
Count(s, e) == Cardinality({k \in 1..Len(s) : s[k] = e})

\* C1: for every recipient list and every interleaving of the Deliver tasks,
\* BatchDeliver returns nil if and only if every Deliver succeeded, and
\* otherwise returns one error that holds the error of every failed Deliver,
\* as many errors as there are failed deliveries.
C1_BatchDeliverAggregates ==
    bpc = "done"
        => /\ \A i \in Tasks : tres[i] # Pending
           /\ bret[1].nil <=> (\A i \in Tasks : tres[i] = Nil)
           /\ Len(bret[1].errs) = Cardinality({i \in Tasks : IsError(tres[i])})
           /\ \A i \in Tasks :
                 IsError(tres[i]) => Count(bret[1].errs, tres[i]) = Count(tres, tres[i])

\* BatchDeliver returned an error for two recipients, one failed on its status
\* code and one in the client, the second recipient's error first.
C1_Witness ==
    /\ bpc = "done" /\ Len(recipients) = 2 /\ ~bret[1].nil
    /\ tres[1].kind = "status" /\ tres[2].kind = "client"
    /\ bret[1].errs = <<tres[2], tres[1]>>

\* C2: at most one SignRequest call is in progress on a signer at any time: no
\* two Deliver tasks are inside postSigner.SignRequest together, and no two
\* Dereference calls inside getSigner.SignRequest.
C2_OneSignerAtATime ==
    /\ Cardinality({i \in Tasks : tpc[i] = "signing"}) <= 1
    /\ Cardinality({j \in Calls : dpc[j] = "signing"}) <= 1

\* One task and one Dereference call are signing, each with its own signer,
\* while another task or call is ready to lock the mutex of one of them.
C2_Witness ==
    \/ /\ Len(recipients) >= 2 /\ Len(dpc) >= 1
       /\ tpc[2] = "signing" /\ tpc[1] = "start" /\ postSignerMu = 2
       /\ dpc[1] = "signing"
    \/ /\ Len(recipients) >= 1 /\ Len(dpc) >= 2
       /\ tpc[1] = "signing"
       /\ dpc[2] = "signing" /\ dpc[1] = "start" /\ getSignerMu = 2

\* The locks caller p holds.
Held(p) == {t \in DOMAIN locks : locks[t] = p}

\* In trace tr, the first call after call i that locks a target or returns
\* from the function, Len(tr) + 1 when there is none yet.
Boundary(tr, i) ==
    LET B == {j \in (i + 1)..Len(tr) :
                 tr[j].call \in {"Lock", "LockFailed", "return"}}
    IN  IF B = {} THEN Len(tr) + 1 ELSE CHOOSE j \in B : \A k \in B : j <= k

\* The calls of Unlock in trace tr after call i and before call j.
Unlocks(tr, i, j) == {k \in (i + 1)..(j - 1) : tr[k].call = "Unlock"}

\* The locks that trace tr leaves held after its first i calls.
OpenLocks(tr, i) ==
    {t \in DOMAIN locks :
        \E j \in 1..i :
           /\ tr[j] = Event("Lock", t)
           /\ \A k \in (j + 1)..i : tr[k] # Event("Unlock", t)}

\* C7: in add and remove every successful Lock(t) is followed by exactly one
\* Unlock(t), and by no other Unlock, before the caller locks the next target
\* or returns, whatever the exit path; after a Lock that failed no Unlock is
\* called; and a caller that is in no loopFn holds no lock.
C7_LockThenOneUnlock ==
    \A p \in DOMAIN trace :
       LET tr == trace[p]
       IN  /\ \A i \in 1..Len(tr) :
                 LET j == Boundary(tr, i)
                     u == Unlocks(tr, i, j)
                 IN  /\ tr[i].call = "Lock" =>
                           /\ \A k \in u : tr[k].t = tr[i].t
                           /\ Cardinality(u) <= 1
                           /\ j <= Len(tr) => Cardinality(u) = 1
                     /\ tr[i].call \in {"LockFailed", "return"} => u = {}
           /\ Unlocks(tr, 0, Boundary(tr, 0)) = {}
           /\ Held(p) = OpenLocks(tr, Len(tr))
           /\ loc[p].pc \in {"start", "done", "lock"} => Held(p) = {}

\* A call that locked and unlocked its first target and whose Lock of the
\* second failed has returned that error, while the other caller's call
\* returned the error of a target of the wrong kind.
C7_Witness ==
    /\ DOMAIN trace = Procs
    /\ loc["p"].pc = "done" /\ rets["p"] = <<"Lock">>
    /\ \E i, j, k \in 1..Len(trace["p"]) :
          /\ i < j /\ j < k
          /\ trace["p"][i] = Event("Lock", T1.str)
          /\ trace["p"][j] = Event("Unlock", T1.str)
          /\ trace["p"][k] = Event("LockFailed", T2.str)
    /\ loc["q"].pc = "done"
    /\ rets["q"] = <<"target in Add is neither a Collection nor an OrderedCollection">>
    /\ \E i \in 1..Len(trace["q"]) : trace["q"][i] = Event("Unlock", T2.str)

\* C8: a caller holds no Database lock while a Transport call of its is in
\* progress: no Dereference is called between a Lock and its Unlock, add and
\* remove call no Dereference, and a caller inside
\* mustHaveActivityActorsMatchObjectActors holds no lock.
C8_NoTransportCallUnderLock ==
    \A p \in DOMAIN trace :
       /\ loc[p].pc = "deref" => Held(p) = {}
       /\ Fn(p) = "actors" => Held(p) = {}
       /\ Fn(p) \in {"add", "remove"} => loc[p].pc # "deref"
       /\ \A i \in 1..Len(trace[p]) :
             trace[p][i].call = "Dereference" => OpenLocks(trace[p], i) = {}

\* A caller whose add locked, updated and unlocked a target is waiting for
\* Dereference to return.
C8_Witness ==
    /\ DOMAIN trace = Procs
    /\ loc["p"].pc = "deref" /\ rets["p"] = <<"">>
    /\ \E i, j \in 1..Len(trace["p"]) :
          /\ i < j
          /\ trace["p"][i] = Event("Update", T1.str)
          /\ trace["p"][j] = Event("Unlock", T1.str)

\* C11: once the context given to Deliver or Dereference is cancelled, a
\* request in flight in client.Do ends with an error and the operation
\* returns an error.
C11_CancelReachesHttpCall ==
    [][/\ \A i \in Tasks :
             (cancelled /\ tpc[i] = "do" /\ tpc'[i] = "ret") => IsError(tres'[i])
       /\ \A j \in Calls :
             (cancelled /\ dpc[j] = "do" /\ dpc'[j] = "done") => IsError(dres'[j])]_vars

\* C12: a Deliver that has returned returned nil exactly when it got a
\* response of status 200, 201 or 202; otherwise it returned an error: the
\* one of NewRequest, SignRequest or client.Do when it got no response, the
\* one naming the status when it got another status.
C12_DeliverNilIffSuccess ==
    \A i \in Tasks :
       tpc[i] \in {"ret", "sent", "done"} =>
          /\ tres[i] = Nil <=> tresp[i] \in {200, 201, 202}
          /\ tres[i] # Nil => IsError(tres[i])
          /\ tres[i].kind \in {"request", "sign", "client"} <=> tresp[i] = 0
          /\ tres[i].kind = "status" => tres[i].code = tresp[i]

\* One Deliver returned nil on a 202, another an error on a 404.
C12_Witness ==
    \E i, k \in Tasks :
       /\ tpc[i] = "done" /\ tresp[i] = 202 /\ tres[i] = Nil
       /\ tpc[k] = "done" /\ tresp[k] = 404 /\ tres[k].kind = "status"

\* C13: a Dereference that has returned returned the body exactly when it
\* got a response of status 200; for every other status, 201 and 202
\* included, and when NewRequest, SignRequest or client.Do failed, it
\* returned an error and no body.
C13_BodyOnlyOn200 ==
    \A j \in Calls :
       dpc[j] = "done" =>
          /\ dres[j].kind = "body" <=> dresp[j] = 200
          /\ dres[j].kind # "body" => IsError(dres[j])
          /\ dres[j].kind \in {"request", "sign", "client"} <=> dresp[j] = 0
          /\ dres[j].kind = "status" => dres[j].code = dresp[j]

\* One Dereference returned the body of a 200, another an error on a 201.
C13_Witness ==
    \E j, k \in Calls :
       /\ dpc[j] = "done" /\ dresp[j] = 200 /\ dres[j].kind = "body"
       /\ dpc[k] = "done" /\ dresp[k] = 201 /\ IsError(dres[k])

\* The id strings of the actors of value t, when it has an 'actor' property
\* whose elements all have an id.
HasActorIds(t) ==
    t.actorer /\ t.actor # <<>> /\ \A k \in 1..Len(t.actor[1]) : ToId(t.actor[1][k]).ok
ActorIds(t) == {ToId(t.actor[1][k]).url.str : k \in 1..Len(t.actor[1])}

\* C14: a call of mustHaveActivityActorsMatchObjectActors that has a value
\* for every object of the activity, the embedded one or the one it
\* dereferenced, each with its actors, returns nil when all these actors are
\* among the activity's actors, and an error when one of them is not.
C14_ActorsMatchIffNil ==
    \A p \in DOMAIN got :
       (/\ prog[p].ops = <<"actors">> /\ loc[p].pc = "done"
        /\ ids(prog[p].actors, 1).ok
        /\ Len(got[p]) = Len(prog[p].objs)
        /\ \A k \in 1..Len(got[p]) : HasActorIds(got[p][k]))
       => (rets[p] = <<"">>
              <=> \A k \in 1..Len(got[p]) : ActorIds(got[p][k]) \subseteq activityActorMap(p))

\* The id strings of a recipient property as given, none when it is nil.
GivenIds(prop) == IF prop = <<>> THEN {} ELSE AddrIds(prop)

\* C15: after a successful normalizeRecipients, for every dimension D, the
\* ids of activity.D are those the activity had together with those every
\* object had, and the ids of each object's D are those that object had
\* together with those the activity had: what only another object had is not
\* among them.
C15_ActivityUnionObjectsOwn ==
    (fn = "normalizeRecipients" /\ output # <<>> /\ ~output[1].err)
        => \A d \in DimSet :
              /\ AddrIds(output[1].a.addr[d])
                    = GivenIds(input.addr[d])
                      \cup UNION {GivenIds(input.object[i].v.addr[d]) :
                                     i \in 1..Len(input.object)}
              /\ \A i \in 1..Len(input.object) :
                    AddrIds(output[1].a.object[i].v.addr[d])
                       = GivenIds(input.object[i].v.addr[d]) \cup GivenIds(input.addr[d])

\* A successful call on a Create with two objects where only the first object
\* had B1 and only the second had A1: the activity has both and each object
\* still has its own only.
C15_Witness ==
    /\ fn = "normalizeRecipients" /\ output # <<>> /\ ~output[1].err
    /\ Len(input.object) = 2
    /\ \E d \in DimSet :
          /\ GivenIds(input.addr[d]) = {}
          /\ GivenIds(input.object[1].v.addr[d]) = {B1.str}
          /\ GivenIds(input.object[2].v.addr[d]) = {A1.str}
          /\ AddrIds(output[1].a.addr[d]) = {A1.str, B1.str}
          /\ AddrIds(output[1].a.object[2].v.addr[d]) = {A1.str}

\* The ids of a recipient property as given, in order; none when it is nil
\* or the type has no such property.
GivenIdList(o, d) ==
    IF ~o.has[d] \/ o.addr[d] = <<>> THEN <<>>
    ELSE [k \in 1..Len(o.addr[d][1]) |-> ToId(o.addr[d][1][k]).url.str]

AllHaveIds(o) ==
    \A d \in DimSet : o.has[d] /\ o.addr[d] # <<>> => ~HasBadId(o.addr[d][1])

\* C16: for every object o whose recipients all have an id, some of its
\* recipient properties unset or not, wrapInCreate returns, without error, a
\* Create whose only object is o, whose only actor is the given IRI, whose
\* 'published' is o's, and whose list for every dimension D holds the ids of
\* o.D in the same order.
C16_WrapCopiesObject ==
    (fn = "wrapInCreate" /\ output # <<>> /\ AllHaveIds(input.o))
        => /\ ~output[1].panic /\ ~output[1].err
           /\ output[1].c.object = <<TypeEntry(input.o)>>
           /\ output[1].c.actor = <<IRIEntry(input.actor)>>
           /\ output[1].c.published
                 = IF input.o.publisheder THEN input.o.published ELSE <<>>
           /\ \A d \in DimSet :
                 LET list == IF output[1].c.addr[d] = <<>> THEN <<>>
                             ELSE output[1].c.addr[d][1]
                 IN  /\ \A k \in 1..Len(list) : list[k].kind = "iri"
                     /\ [k \in 1..Len(list) |-> list[k].iri.str] = GivenIdList(input.o, d)

\* What C17 says of the Tombstone t made of obj with id at time now.
IsTombstoneOf(t, obj, id, now) ==
    /\ t.typeName = "Tombstone"
    /\ t.id = <<id>>
    /\ t.formerType = <<obj.typeName>>
    /\ t.deleted = <<now>>
    /\ t.published = IF obj.publisheder THEN obj.published ELSE <<>>
    /\ t.updated = IF obj.updateder THEN obj.updated ELSE <<>>

\* C17: toTombstone(obj, id, now) returns a Tombstone whose id is id, whose
\* formerType is the type name of obj, whose 'deleted' is now, and whose
\* 'published' and 'updated' are those of obj when obj has them and are not
\* set otherwise; obj is as it was.
C17_TombstoneFields ==
    fn = "toTombstone"
        => /\ Len(output) >= 1
              => IsTombstoneOf(output[1], input.obj, input.id, input.t1)
           /\ Len(output) = 2
              => IsTombstoneOf(output[2], output[1], input.id, input.t2)

\* The Tombstone of a Note that had 'published' and no 'updated'.
C17_Witness ==
    /\ fn = "toTombstone" /\ Len(output) >= 1
    /\ input.obj.typeName = "Note"
    /\ input.obj.published # <<>> /\ input.obj.updated = <<>>
    /\ output[1].published = input.obj.published /\ output[1].updated = <<>>

\* The recipients that are not ignored, each at its first occurrence.
RECURSIVE FirstNotIgnored(_, _)
FirstNotIgnored(s, seen) ==
    IF s = <<>> THEN <<>>
    ELSE IF Head(s).str \in seen THEN FirstNotIgnored(Tail(s), seen)
    ELSE <<Head(s)>> \o FirstNotIgnored(Tail(s), seen \cup {Head(s).str})

\* C18: the list dedupeIRIs returns has no two entries of equal string and
\* no entry whose string is that of an ignored one, it has every recipient
\* that is not ignored, in the order of the first occurrences, and
\* dedupeIRIs of it with the same ignored list is the same list.
C18_DedupeIRIs ==
    fn = "dedupeIRIs"
        => LET ign == {input.ignored[k].str : k \in 1..Len(input.ignored)}
           IN  /\ Len(output) >= 1 =>
                     LET out == output[1]
                     IN  /\ \A j, k \in 1..Len(out) : j # k => out[j].str # out[k].str
                         /\ \A k \in 1..Len(out) : out[k].str \notin ign
                         /\ \A k \in 1..Len(input.recipients) :
                               input.recipients[k].str \notin ign
                                  => \E j \in 1..Len(out) : out[j] = input.recipients[k]
                         /\ out = FirstNotIgnored(input.recipients, ign)
               /\ Len(output) = 2 => output[2] = output[1]

\* Both calls were made on a list that repeats a recipient around an ignored
\* one.
C18_Witness ==
    /\ fn = "dedupeIRIs" /\ Len(output) = 2
    /\ input.recipients = <<A1, B1, A1>> /\ input.ignored = <<B1>>
    /\ output[1] = <<A1>>

\* The inboxes of the values of list t from which one can be obtained, in
\* order.
RECURSIVE ObtainableInboxes(_)
ObtainableInboxes(t) ==
    IF t = <<>> THEN <<>>
    ELSE IF Head(t).inboxer /\ Head(t).inbox # <<>> /\ ToId(Head(t).inbox[1]).ok
    THEN <<ToId(Head(t).inbox[1]).url>> \o ObtainableInboxes(Tail(t))
    ELSE ObtainableInboxes(Tail(t))

\* C19: getInboxes skips a value from which no inbox can be obtained and
\* still returns the inboxes of all the other values.
C19_FailingRecipientSkipped ==
    (fn = "getInboxes" /\ output # <<>>)
        => /\ ~output[1].panic
           /\ output[1].u = ObtainableInboxes(input)

\* The names of the calls of trace tr from call i up to the next call that
\* locks a target or returns.
Segment(tr, i) == [k \in 1..(Boundary(tr, i) - i) |-> tr[i + k - 1].call]

\* The Database as it was when the callers started.
StartOf(f) ==
    /\ f.owns = owns
    /\ \A t \in DOMAIN db : f.db[t].typeName = db[t].typeName

\* In trace tr, the last return before call i, 0 when call i belongs to the
\* caller's first function call.
LastReturn(tr, i) ==
    LET R == {k \in 1..(i - 1) : tr[k].call = "return"}
    IN  IF R = {} THEN 0 ELSE CHOOSE k \in R : \A l \in R : l <= k

\* C20: in add and remove the Database calls on a target come in the order
\* Lock, Owns, Get, Update, Unlock, all on that target; on a target that is
\* not owned neither Get nor Update is called and the call goes on with the
\* next target, returning nil after the last; of an owned OrderedCollection
\* only 'orderedItems' is changed, of an owned plain Collection only 'items',
\* and nothing of any other value.
C20_OrderAndFields ==
    /\ \A p \in DOMAIN trace :
          LET tr == trace[p]
          IN  \A i \in 1..Len(tr) :
                 /\ tr[i].call \in {"Owns", "Get", "Update", "Unlock"} =>
                       \E j \in 1..(i - 1) : tr[j].call = "Lock" /\ i < Boundary(tr, j)
                 /\ tr[i].call = "Lock" =>
                       LET j == Boundary(tr, i)
                           seg == Segment(tr, i)
                       IN  /\ \A k \in i..(j - 1) : tr[k].t = tr[i].t
                           /\ seg \in {<<"Lock">>, <<"Lock", "Owns">>,
                                       <<"Lock", "Owns", "Unlock">>}
                                      \cup IF tr[i].t \in owns
                                           THEN {<<"Lock", "Owns", "Get">>,
                                                 <<"Lock", "Owns", "Get", "Unlock">>,
                                                 <<"Lock", "Owns", "Get", "Update">>,
                                                 <<"Lock", "Owns", "Get", "Update", "Unlock">>}
                                           ELSE {}
                           /\ (tr[i].t \notin owns /\ j <= Len(tr) /\ tr[j].call = "return")
                                 => LET n == Cardinality({k \in 1..j : tr[k].call = "return"})
                                        m == Cardinality({k \in (LastReturn(tr, i) + 1)..j :
                                                             tr[k].call = "Lock"})
                                    IN  \/ rets[p][n] = "Owns"
                                        \/ /\ rets[p][n] = ""
                                           /\ m = Len(prog[p].targets)
    /\ \A f \in Fixtures :
          StartOf(f) =>
             \A t \in DOMAIN db :
                /\ IsOrExtendsActivityStreamsOrderedCollection(db[t])
                      => db[t].items = f.db[t].items
                /\ ~IsOrExtendsActivityStreamsOrderedCollection(db[t])
                      => db[t].orderedItems = f.db[t].orderedItems
                /\ (t \notin owns \/ ~IsOrExtendsActivityStreamsCollection(db[t]))
                      => db[t] = f.db[t]
    /\ \E f \in Fixtures : db # <<>> => StartOf(f)

\* An add on a target that is not owned and then on an owned
\* OrderedCollection has skipped the first, changed the 'orderedItems' of the
\* second and returned nil.
C20_Witness ==
    /\ DOMAIN trace = Procs
    /\ owns = {T2.str}
    /\ prog["p"].ops = <<"add">> /\ loc["p"].pc = "done" /\ rets["p"] = <<"">>
    /\ [k \in 1..Len(trace["p"]) |-> trace["p"][k].call]
          = <<"Lock", "Owns", "Unlock",
              "Lock", "Owns", "Get", "Update", "Unlock", "return">>
    /\ trace["p"][1].t = T1.str /\ trace["p"][4].t = T2.str
    /\ db[T2.str].orderedItems = <<<<IRIEntry(Y), IRIEntry(X), IRIEntry(X)>>>>
    /\ db[T2.str].items = <<>>

\* The errors add and remove make for a target of the wrong kind.
WrongKindErrors ==
    {"target in Add is neither a Collection nor an OrderedCollection",
     "target in Remove is neither a Collection nor an OrderedCollection"}

\* C21: when an owned target of add or remove is neither a Collection nor an
\* OrderedCollection, Update is not called for it, its lock is released,
\* the next thing the call does is return an error, so that no later target
\* is locked, and the value stored under it stays as it was.
C21_WrongKindIsError ==
    /\ \A p \in DOMAIN trace :
          LET tr == trace[p]
          IN  \A i \in 1..Len(tr) :
                 (/\ tr[i].call = "Lock"
                  /\ tr[i].t \in owns
                  /\ ~IsOrExtendsActivityStreamsCollection(db[tr[i].t]))
                 => LET j == Boundary(tr, i)
                        seg == Segment(tr, i)
                        n == Cardinality({k \in 1..j : tr[k].call = "return"})
                    IN  /\ \A k \in 1..Len(seg) : seg[k] # "Update"
                        /\ j <= Len(tr) =>
                              /\ seg[Len(seg)] = "Unlock"
                              /\ tr[j].call = "return"
                              /\ rets[p][n] \in {"Owns", "Get"} \cup WrongKindErrors
                              /\ seg = <<"Lock", "Owns", "Get", "Unlock">>
                                    => rets[p][n] \in {"Get"} \cup WrongKindErrors
                              /\ tr[i].t \notin OpenLocks(tr, j)
          /\ Held(p) = OpenLocks(tr, Len(tr))
    /\ \A f \in Fixtures :
          StartOf(f) =>
             \A t \in DOMAIN db :
                ~IsOrExtendsActivityStreamsCollection(db[t]) => db[t] = f.db[t]

\* A remove whose first target is an owned Note has returned the error after
\* Lock, Owns, Get and Unlock on it, without locking its second target.
C21_Witness ==
    /\ DOMAIN trace = Procs
    /\ prog["p"].ops = <<"remove">> /\ Len(prog["p"].targets) = 2
    /\ loc["p"].pc = "done"
    /\ rets["p"] = <<"target in Remove is neither a Collection nor an OrderedCollection">>
    /\ trace["p"] = <<Event("Lock", T2.str), Event("Owns", T2.str),
                      Event("Get", T2.str), Event("Unlock", T2.str),
                      Event("return", "")>>
    /\ locks[T2.str] # "p"

\* Whether the key '@context' occurs in a map below the JSON value j, in a
\* value of a key or in an element of an array, at any depth.
RECURSIVE ContextBelow(_)
ContextBelow(j) ==
    LET sub == IF j.kind = "map" THEN j.kids
               ELSE IF j.kind = "array" THEN j.elems
               ELSE <<>>
    IN  \E k \in DOMAIN sub :
           \/ sub[k].kind = "map" /\ sub[k].ctx # <<>>
           \/ ContextBelow(sub[k])

\* C22: in the map that serialize returns the key '@context' occurs at the
\* root only: no map nested in it, as the value of a key or inside an array,
\* at any depth, has the key.
C22_ContextOnlyAtRoot ==
    (fn = "serialize" /\ output # <<>> /\ output[1].e = "")
       => /\ output[1].m[1].ctx = <<contextValue(input.v)>>
          /\ ~ContextBelow(output[1].m[1])

\* C23: a signer mutex is held only by a call that is inside SignRequest: a
\* Deliver task or Dereference call that waits on the HTTP client, or that
\* has returned, with an error of the signer or otherwise, does not hold it.
C23_MutexOnlyAroundSigning ==
    /\ postSignerMu # 0 => postSignerMu \in Tasks /\ tpc[postSignerMu] = "signing"
    /\ getSignerMu # 0 => getSignerMu \in Calls /\ dpc[getSignerMu] = "signing"
    /\ \A i \in Tasks : tpc[i] \in {"do", "ret", "sent", "done"} => postSignerMu # i
    /\ \A j \in Calls : dpc[j] \in {"do", "done"} => getSignerMu # j

\* The HTTP calls of two tasks of one BatchDeliver are in flight together,
\* each after its own SignRequest, and no task holds the mutex.
C23_Witness ==
    /\ Len(recipients) >= 2
    /\ tpc[1] = "do" /\ tpc[2] = "do"
    /\ postSignerMu = 0

\* A task of BatchDeliver has yet to send its error, or may yet come to have
\* one, while the drain loop has started.
SendAfterDrainStarts ==
    /\ bpc \in {"drain", "done"}
    /\ \E i \in Tasks :
          \/ tpc[i] \in {"none", "start", "signing", "do"}
          \/ tpc[i] = "ret" /\ IsError(tres[i])

\* C24 as stated: BatchDeliver comes to a moment at which its drain loop has
\* started and a task has yet to send its error on the channel, so that the
\* drain can leave before the error is received.
C24_SendAfterDrainStarts == <>SendAfterDrainStarts

\* C24: no task of BatchDeliver sends on the error channel after the drain
\* loop has started: by then every task has finished, and the errors of the
\* tasks are all in the channel or already received from it.
C24_NoSendAfterDrainStarts ==
    bpc \in {"drain", "done"}
       => /\ ~SendAfterDrainStarts
          /\ \A i \in Tasks : tpc[i] = "done"
          /\ Len(errCh) + Len(errs) = Cardinality({i \in Tasks : IsError(tres[i])})
          /\ bpc = "done" => errCh = <<>>

\* The drain loop starts with the errors of both tasks in the channel.
C24_Witness ==
    /\ bpc = "drain" /\ errs = <<>>
    /\ Len(errCh) = 2
    /\ \A i \in Tasks : IsError(tres[i]) /\ tpc[i] = "done"

\* C25: concurrent add and remove calls do not deadlock on Database locks: a
\* caller holds at most one lock, and none while it waits for one, so a lock
\* that a caller waits for is held by another caller that is past its own
\* Lock and on its way to Unlock; the callers never all wait for a lock that
\* is held.
C25_NoDeadlockOneLock ==
    /\ \A p \in DOMAIN loc :
          /\ Cardinality(Held(p)) <= 1
          /\ loc[p].pc = "lock" =>
                /\ Held(p) = {}
                /\ locks[Target(p)] # "" =>
                      LET h == locks[Target(p)]
                      IN  /\ h # p
                          /\ loc[h].pc \in {"owns", "get", "update", "unlock"}
                          /\ Target(h) = Target(p)
                          /\ Held(h) = {Target(p)}
    /\ DOMAIN loc # {} =>
          \E p \in DOMAIN loc : ~(loc[p].pc = "lock" /\ locks[Target(p)] # "")

\* Two callers with the same two targets in opposite orders: p is through
\* with the first of its targets and waits for the lock of the second, which
\* q holds as the first of its own.
C25_Witness ==
    /\ DOMAIN loc = Procs
    /\ targetIds("p").ok /\ targetIds("q").ok
    /\ targetIds("p").ids = <<T1, T2>>
    /\ targetIds("q").ids = <<T2, T1>>
    /\ loc["p"].pc = "lock" /\ loc["p"].ti = 2
    /\ locks[T2.str] = "q" /\ loc["q"].ti = 1
    /\ \E i \in 1..Len(trace["p"]) : trace["p"][i] = Event("Unlock", T1.str)

\* What holds of BatchDeliver at every moment: the tasks started are those of
\* the first 'spawned' entries of recipients, one for each entry, and all of
\* them once the loop has ended; the WaitGroup counts the tasks that have not
\* finished; the error of a task names the entry it was started for; a task
\* with an error to send finds room in the channel; BatchDeliver has not
\* returned unless every task has finished; and for no recipients it
\* returns nil.
BatchDeliverSafe ==
    /\ \A i \in Tasks : tpc[i] # "none" <=> i <= spawned
    /\ bpc \in {"wait", "drain", "done"} => spawned = Len(recipients)
    /\ wg = Cardinality({i \in Tasks : tpc[i] \notin {"none", "done"}})
    /\ \A i \in Tasks : IsError(tres[i]) => tres[i].to = recipients[i]
    /\ \A i \in Tasks :
          (tpc[i] = "ret" /\ IsError(tres[i])) => Len(errCh) < Len(recipients)
    /\ bpc = "done" => \A i \in Tasks : tpc[i] = "done" /\ tres[i] # Pending
    /\ (bpc = "done" /\ recipients = <<>>) => bret = <<BatchResult(<<>>)>>

\* C26: when every goroutine that can run does run and every Deliver
\* returns, BatchDeliver returns in the end; it starts one Deliver for each
\* entry of recipients, no task blocks on its send to the error channel, it
\* does not return before every task has finished, and for an empty list it
\* returns nil.
C26_BatchDeliverReturns == []BatchDeliverSafe /\ <>(bpc = "done")

\* BatchDeliver has returned for a list that names one recipient twice: a
\* Deliver ran for each of the two entries, and each left its error.
C26_Witness ==
    /\ bpc = "done"
    /\ recipients = <<A1, A1>>
    /\ tpc = <<"done", "done">>
    /\ IsError(tres[1]) /\ IsError(tres[2])
    /\ Len(bret[1].errs) = 2

\* Whether the stored collection tp has the IRI u in the property that add
\* appends to: 'orderedItems' of an OrderedCollection, 'items' of a plain
\* Collection.
InCollection(tp, u) ==
    LET prop == IF IsOrExtendsActivityStreamsOrderedCollection(tp)
                THEN tp.orderedItems ELSE tp.items
    IN  /\ prop # <<>>
        /\ \E k \in 1..Len(prop[1]) : prop[1][k] = IRIEntry(u)

\* C27: no update is lost between concurrent add calls: when the callers each
\* made one add call and all returned nil, every owned target of a call
\* holds every object id of that call, also a target that two calls with
\* different ids changed.
C27_NoLostUpdate ==
    (/\ DOMAIN prog = Procs
     /\ \A p \in Procs :
           prog[p].ops = <<"add">> /\ loc[p].pc = "done" /\ rets[p] = <<"">>)
       => \A p \in Procs :
             \A i \in 1..Len(targetIds(p).ids) :
                targetIds(p).ids[i].str \in owns =>
                   \A k \in 1..Len(opIds(p).ids) :
                      InCollection(db[targetIds(p).ids[i].str], opIds(p).ids[k])

\* Two add calls, of X and of Y, both changed the owned target T1 and both
\* returned nil; T1 holds X and Y.
C27_Witness ==
    /\ DOMAIN prog = Procs
    /\ \A p \in Procs :
          prog[p].ops = <<"add">> /\ loc[p].pc = "done" /\ rets[p] = <<"">>
    /\ opIds("p").ids = <<X>> /\ opIds("q").ids = <<Y>>
    /\ T1.str \in owns
    /\ \A p \in Procs : \E i \in 1..Len(trace[p]) : trace[p][i] = Event("Update", T1.str)
    /\ InCollection(db[T1.str], X) /\ InCollection(db[T1.str], Y)

\* Whether the list of the recipient property prop, none when it is nil, has
\* no id twice.
NoDupProp(prop) == prop = <<>> \/ NoDupIds(prop[1])

\* C28: normalizeRecipients adds a missing recipient at most once to a list:
\* when the lists of a dimension, of the activity and of every object, have
\* no id twice before a call that returns nil, they have none twice after it.
C28_NoDuplicateAdded ==
    (fn = "normalizeRecipients" /\ output # <<>> /\ ~output[1].err)
        => \A d \in DimSet :
              (/\ NoDupProp(input.addr[d])
               /\ \A i \in 1..Len(input.object) : NoDupProp(input.object[i].v.addr[d]))
              => /\ NoDupProp(output[1].a.addr[d])
                 /\ \A i \in 1..Len(input.object) :
                       NoDupProp(output[1].a.object[i].v.addr[d])

\* The list of a recipient property: empty when the property is nil.
ListOf(prop) == IF prop = <<>> THEN <<>> ELSE prop[1]

\* Whether element e of 'object' shows all five addressing properties: it is
\* an embedded value whose type has them all.
ExposesAll(e) == e.kind = "type" /\ \A d \in DimSet : e.v.has[d]

\* C30: when some object of the Create does not show all five addressing
\* properties, an object given as an IRI among them, normalizeRecipients
\* returns an error, and the recipient lists of the activity and of every
\* embedded object hold what they held before the call.
C30_ErrorLeavesListsAsBefore ==
    (/\ fn = "normalizeRecipients" /\ output # <<>>
     /\ \E i \in 1..Len(input.object) : ~ExposesAll(input.object[i]))
        => /\ output[1].err
           /\ \A d \in DimSet :
                 /\ ListOf(output[1].a.addr[d]) = ListOf(input.addr[d])
                 /\ \A i \in 1..Len(input.object) :
                       input.object[i].kind = "type" =>
                          ListOf(output[1].a.object[i].v.addr[d])
                             = ListOf(input.object[i].v.addr[d])

\* The list that remove and add work on in the stored collection tp.
CollectionList(tp) ==
    ListOf(IF IsOrExtendsActivityStreamsOrderedCollection(tp)
           THEN tp.orderedItems ELSE tp.items)

\* The entries of list whose id is not in the set S, in their order.
Without(list, S) ==
    LET keep(e) == IdStr(e) \notin S
    IN  SelectSeq(list, keep)

\* The id strings of the objects of caller p's calls.
OpIdSet(p) == {opIds(p).ids[k].str : k \in 1..Len(opIds(p).ids)}

\* The owned targets of caller p's calls.
OwnedTargets(p) ==
    {targetIds(p).ids[i].str : i \in 1..Len(targetIds(p).ids)} \cap owns

\* C29: when a remove has returned nil, no owned target of it holds an entry
\* with the id of a removed object.  For a caller that runs alone and whose
\* calls all returned nil, one remove, two removes, or an add and then a
\* remove, of the same objects on the same targets, all leave in every owned
\* target the entries it had at first without those of the removed ids, in
\* their order, and leave the other stored values as they were: so remove
\* after add restores a collection that had none of the ids, and a second
\* remove changes nothing.
C29_RemoveDropsAll ==
    /\ \A p \in DOMAIN loc :
          LET n == Len(rets[p])
          IN  (/\ loc[p].pc \in {"start", "done"}
               /\ n >= 1 /\ prog[p].ops[n] = "remove" /\ rets[p][n] = "")
                 => \A t \in OwnedTargets(p) :
                       \A k \in 1..Len(CollectionList(db[t])) :
                          /\ ToId(CollectionList(db[t])[k]).ok
                          /\ IdStr(CollectionList(db[t])[k]) \notin OpIdSet(p)
    /\ (/\ DOMAIN loc = Procs
        /\ prog["q"].ops = <<>>
        /\ loc["p"].pc = "done"
        /\ prog["p"].ops \in {<<"remove">>, <<"remove", "remove">>, <<"add", "remove">>}
        /\ \A k \in 1..Len(rets["p"]) : rets["p"][k] = "")
          => \A f \in Fixtures :
                StartOf(f) =>
                   \A t \in DOMAIN db :
                      IF t \in OwnedTargets("p")
                      THEN CollectionList(db[t])
                              = Without(CollectionList(f.db[t]), OpIdSet("p"))
                      ELSE db[t] = f.db[t]

\* An add of X and then a remove of X both returned nil on the owned ordered
\* collection that held X twice, around another entry: that entry alone is
\* left.
C29_Witness ==
    /\ DOMAIN loc = Procs
    /\ prog["p"].ops = <<"add", "remove">>
    /\ loc["p"].pc = "done" /\ rets["p"] = <<"", "">>
    /\ T1.str \in OwnedTargets("p")
    /\ \E i, j \in 1..Len(trace["p"]) :
          /\ i < j
          /\ trace["p"][i] = Event("Update", T1.str)
          /\ trace["p"][j] = Event("Update", T1.str)
    /\ db[T1.str].orderedItems = <<<<IRIEntry(A1)>>>>

====
